---- MODULE Spec2Model ----
(***************************************************************************)
(* A model of the ilex lexer core (driver loop, emitter, source context)   *)
(* and of the byteyarn raw representation.                                  *)
(*                                                                          *)
(* Text is a sequence of bytes; every byte is a one-entry string.  Offsets  *)
(* are 0-based byte offsets as in the Rust code, so the Rust slice          *)
(* text[lo..hi] is Slice(text, lo, hi).  A character is a non-empty         *)
(* sequence of bytes (its UTF-8 encoding).                                  *)
(***************************************************************************)
EXTENDS Integers, Sequences, FiniteSets, TLC

\* ------------------------------------------------------------------ bounds
\* Longest file, in characters.
MaxLen == 4
\* Number of context operations in one run of the context specification.
MaxOps == 5
MaxCalls == 3
\* The most write_str calls of one from_fmt_args.
MaxWrites == 3

\* ------------------------------------------------------- program constants
WHITESPACE == -1
UNEXPECTED == -2
PREFIX == -3
SUFFIX == -4

\* ------------------------------------------------------------ text helpers
Max(S) == CHOOSE x \in S : \A y \in S : y <= x
Min(S) == CHOOSE x \in S : \A y \in S : x <= y

Slice(s, lo, hi) == SubSeq(s, lo + 1, hi)
From(s, lo) == SubSeq(s, lo + 1, Len(s))
StartsWith(s, p) == Len(p) <= Len(s) /\ SubSeq(s, 1, Len(p)) = p
EndsWith(s, p) == Len(p) <= Len(s) /\ SubSeq(s, Len(s) - Len(p) + 1, Len(s)) = p

RECURSIVE Repeat(_, _)
Repeat(s, k) == IF k <= 0 THEN <<>> ELSE s \o Repeat(s, k - 1)

RECURSIVE Flatten(_)
Flatten(ss) == IF ss = <<>> THEN <<>> ELSE Head(ss) \o Flatten(Tail(ss))

\* str::find: the offset of the first occurrence of p in s, or -1.
Find(s, p) ==
  LET hits == {i \in 0..Len(s) : StartsWith(From(s, i), p)}
  IN IF hits = {} THEN 0 - 1 ELSE Min(hits)

\* UTF-8: the lead bytes of the two-byte characters of the model and their
\* continuation bytes.
LeadBytes == {"C2", "C3"}
ContBytes == {"A9", "BF"}

\* str::is_char_boundary
IsCharBoundary(s, i) ==
  /\ i >= 0
  /\ i <= Len(s)
  /\ (i < Len(s) => s[i + 1] \notin ContBytes)

\* s.chars().next(): the first character of s, <<>> when s is empty.
FirstChar(s) ==
  IF s = <<>> THEN <<>>
  ELSE IF s[1] \in LeadBytes /\ Len(s) >= 2 THEN SubSeq(s, 1, 2)
  ELSE <<s[1]>>

\* s.chars().next_back()
LastChar(s) ==
  IF s = <<>> THEN <<>>
  ELSE IF s[Len(s)] \in ContBytes /\ Len(s) >= 2 THEN SubSeq(s, Len(s) - 1, Len(s))
  ELSE <<s[Len(s)]>>

RECURSIVE Chars(_)
Chars(s) ==
  IF s = <<>> THEN <<>>
  ELSE <<FirstChar(s)>> \o Chars(From(s, Len(FirstChar(s))))

CharCount(s) == Len(Chars(s))

\* char::is_ascii
IsAscii(c) == Len(c) = 1 /\ c[1] \notin LeadBytes /\ c[1] \notin ContBytes

\* char::is_whitespace
IsWhitespace(c) == c \in {<<" ">>, <<"\n">>}

AsciiAlpha == {"a", "b", "c", "e", "x"}
AsciiDigit == {"0", "1", "5", "7"}

\* unicode_xid: XID_Start and XID_Continue of the characters of the model.
IsXidStart(c) == (Len(c) = 1 /\ c[1] \in AsciiAlpha) \/ c = <<"C3", "A9">>
IsXidContinue(c) ==
  IsXidStart(c) \/ (Len(c) = 1 /\ c[1] \in AsciiDigit \cup {"_"})
is_xid(c) == IsXidContinue(c)

\* char::to_digit
DigitValue(c) ==
  IF Len(c) # 1 THEN 99
  ELSE CASE c[1] = "0" -> 0
         [] c[1] = "1" -> 1
         [] c[1] = "5" -> 5
         [] c[1] = "7" -> 7
         [] c[1] = "a" -> 10
         [] c[1] = "b" -> 11
         [] c[1] = "c" -> 12
         [] c[1] = "e" -> 14
         [] OTHER -> 99
is_digit(c, radix) == DigitValue(c) < radix

\* ------------------------------------------------------------- rule model
\* Affixes::default: an affix list with no entries is [""].
DefaultAffixes == [prefixes |-> << <<>> >>, suffixes |-> << <<>> >>,
                   has_prefixes |-> FALSE, has_suffixes |-> FALSE]

\* A builder that keeps the default entry in front of the prefixes added.
with_prefixes_keep(a, prefixes) ==
  [a EXCEPT !.has_prefixes = TRUE, !.prefixes = @ \o prefixes]

\* with_affixes!: with_prefixes and with_suffixes clear the list the first
\* time they are called on a rule, the latch telling them so, and extend it
\* with the entries passed; with_prefix and with_suffix pass one entry.
with_prefixes(a, prefixes) ==
  [a EXCEPT !.has_prefixes = TRUE,
            !.prefixes = (IF a.has_prefixes THEN @ ELSE <<>>) \o prefixes]
with_suffixes(a, suffixes) ==
  [a EXCEPT !.has_suffixes = TRUE,
            !.suffixes = (IF a.has_suffixes THEN @ ELSE <<>>) \o suffixes]
with_prefix(a, prefix) == with_prefixes(a, <<prefix>>)
with_suffix(a, suffix) == with_suffixes(a, <<suffix>>)

Paired(open, close) == [kind |-> "Paired", open |-> open, close |-> close]
\* BracketKind::RustLike and BracketKind::CxxLike; open and close are pairs.
RustLike(repeating, open, close) ==
  [kind |-> "RustLike", repeating |-> repeating, open |-> open, close |-> close]
CxxLike(ident_rule, open, close) ==
  [kind |-> "CxxLike", ident_rule |-> ident_rule, open |-> open, close |-> close]

Keyword(value) == [kind |-> "Keyword", value |-> value]
Bracket(b) == [kind |-> "Bracket", bracket |-> b]
Ident(ascii_only, min_len, affixes) ==
  [kind |-> "Ident", ascii_only |-> ascii_only, extra_starts |-> {},
   extra_continues |-> {}, min_len |-> min_len, affixes |-> affixes]
Quoted(b, escapes, affixes) ==
  [kind |-> "Quoted", bracket |-> b, escapes |-> escapes, affixes |-> affixes]
Comment(b, can_nest) == [kind |-> "Comment", bracket |-> b, can_nest |-> can_nest]
LineEnd(cancel) == [kind |-> "LineEnd", cancel |-> cancel]
Digits(radix, signs, min_chunks) ==
  [radix |-> radix, signs |-> signs, min_chunks |-> min_chunks]
Digital(mant, separator, point, exps, corner_cases, affixes) ==
  [kind |-> "Digital", mant |-> mant, separator |-> separator, point |-> point,
   exps |-> exps, corner_cases |-> corner_cases, affixes |-> affixes]

Escape(key, esc) == [key |-> key, esc |-> esc]
Invalid == [kind |-> "Invalid"]
Basic == [kind |-> "Basic"]
Fixed(n) == [kind |-> "Fixed", chars |-> n]
Bracketed(open, close) == [kind |-> "Bracketed", open |-> open, close |-> close]

\* Ident::is_valid_start
is_valid_start(rule, c) ==
  \/ (~rule.ascii_only /\ IsXidStart(c))
  \/ (Len(c) = 1 /\ (c[1] \in AsciiAlpha \/ c[1] = "_"))
  \/ c \in rule.extra_starts
  \/ c \in rule.extra_continues

\* Ident::is_valid_continue
is_valid_continue(rule, c) ==
  \/ (~rule.ascii_only /\ IsXidContinue(c))
  \/ (Len(c) = 1 /\ (c[1] \in AsciiAlpha \cup AsciiDigit \/ c[1] = "_"))
  \/ c \in rule.extra_continues

\* The rule sets the lexer is run on, each with the characters its files are
\* written in.
RuleSetIds == 1..16

RuleSet(rs) ==
  CASE rs = 1 ->
         << Keyword(<<"a", "b">>),
            Ident(FALSE, 2, DefaultAffixes),
            Keyword(<<"a">>),
            Bracket(Paired(<<"|">>, <<"|">>)),
            Keyword(<<"|", "|">>) >>
    [] rs = 2 ->
         << Keyword(<<"a">>),
            Keyword(<<"a", "b", "c">>),
            Bracket(Paired(<<"(">>, <<")">>)) >>
    [] rs = 3 ->
         << LineEnd(<<"\\">>),
            Comment(Paired(<<"#">>, <<"\n">>), FALSE),
            Quoted(Paired(<<"\"">>, <<"\"">>),
                   {Escape(<<"\\">>, Invalid), Escape(<<"\\", "a">>, Basic)},
                   DefaultAffixes),
            Ident(TRUE, 0, DefaultAffixes) >>
    [] rs = 4 ->
         << Digital(Digits(10, << >>, 1), <<"_">>, <<".">>,
                    << <<<<"e">>, Digits(10, <<[text |-> <<"-">>, value |-> "Negative"]>>, 1)>> >>,
                    [prefix |-> FALSE, suffix |-> FALSE,
                     around_point |-> FALSE, around_exp |-> FALSE],
                    DefaultAffixes) >>
    [] rs = 5 ->
         << Bracket(Paired(<<"(">>, <<")">>)),
            Ident(FALSE, 0, DefaultAffixes),
            Quoted(Paired(<<"\"">>, <<"\"">>), {}, DefaultAffixes),
            Keyword(<<"(", "+", "(">>),
            Keyword(<<")", "+", ")">>),
            Keyword(<<"a", "+", "a">>),
            Keyword(<<"\"", "+", "\"">>) >>
    [] rs = 6 ->
         << LineEnd(<<>>),
            Digital(Digits(10, << >>, 1), <<>>, <<".">>, << >>,
                    [prefix |-> FALSE, suffix |-> FALSE,
                     around_point |-> FALSE, around_exp |-> FALSE],
                    DefaultAffixes),
            Comment(Paired(<<"#">>, <<"\n">>), FALSE),
            Keyword(<<"1", "+", "1">>),
            Keyword(<<"#", "+", "#">>),
            Keyword(<<"\n", "+", "\n">>) >>
    [] rs = 7 ->
         << Quoted(Paired(<<"\"">>, <<"\"">>),
                   {Escape(<<"\\">>, Bracketed(<<"{">>, <<"}">>)),
                    Escape(<<"x">>, Fixed(1))},
                   DefaultAffixes) >>
    [] rs = 8 ->
         << Quoted(RustLike(<<"#">>, << <<>>, <<"\"">> >>, << <<"\"">>, <<>> >>),
                   {}, DefaultAffixes) >>
    [] rs = 9 ->
         << Quoted(CxxLike(Ident(FALSE, 0, DefaultAffixes),
                           << <<>>, <<"(">> >>, << <<")">>, <<>> >>),
                   {}, DefaultAffixes) >>
    [] rs = 10 ->
         << Bracket(Paired(<<"(">>, <<")">>)),
            Bracket(Paired(<<"[">>, <<"]">>)) >>
    [] rs = 11 ->
         << Quoted(Paired(<<"\"">>, <<"\"">>), {Escape(<<>>, Fixed(2))},
                   DefaultAffixes) >>
    [] rs = 12 ->
         << Comment(Paired(<<"<">>, <<">">>), TRUE),
            Comment(Paired(<<"[">>, <<"]">>), FALSE) >>
    [] rs = 13 ->
         << Digital(Digits(16, <<[text |-> <<"-">>, value |-> "Negative"]>>, 1),
                    << >>, <<".">>,
                    << <<<<"e">>, Digits(10, << >>, 1)>> >>,
                    [prefix |-> FALSE, suffix |-> FALSE,
                     around_point |-> FALSE, around_exp |-> FALSE],
                    with_prefixes(DefaultAffixes, << <<>>, <<"x">> >>)) >>
    [] rs = 14 ->
         << Ident(FALSE, 2,
                  with_suffixes(with_prefixes(DefaultAffixes, << <<>>, <<"$">> >>),
                                << <<>>, <<"!">> >>)) >>
    [] rs = 15 ->
         << Quoted(CxxLike(Ident(FALSE, 0, DefaultAffixes),
                           << <<>>, <<"(">> >>, << <<")">>, <<>> >>),
                   {}, DefaultAffixes) >>
    [] rs = 16 ->
         << LineEnd(<<"\\">>),
            Bracket(Paired(<<"a">>, <<"b">>)) >>

Alphabet(rs) ==
  CASE rs = 1 -> {<<"a">>, <<"b">>, <<"|">>, <<" ">>, <<"C2", "BF">>}
    [] rs = 2 -> {<<"a">>, <<"b">>, <<"c">>, <<"(">>, <<")">>}
    [] rs = 3 -> {<<"a">>, <<"#">>, <<"\n">>, <<"\"">>, <<"\\">>}
    [] rs = 4 -> {<<"1">>, <<"_">>, <<".">>, <<"e">>, <<"-">>}
    [] rs = 5 -> {<<"a">>, <<"(">>, <<")">>, <<"\"">>, <<"+">>}
    [] rs = 6 -> {<<"1">>, <<"#">>, <<"\n">>, <<"+">>}
    [] rs = 7 -> {<<"\"">>, <<"\\">>, <<"{">>, <<"}">>, <<"x">>}
    [] rs = 8 -> {<<"#">>, <<"\"">>, <<"a">>}
    [] rs = 9 -> {<<"a">>, <<"b">>, <<"(">>, <<")">>}
    [] rs = 10 -> {<<"(">>, <<")">>, <<"[">>, <<"]">>}
    [] rs = 11 -> {<<"\"">>, <<"7">>}
    [] rs = 12 -> {<<"<">>, <<">">>, <<"[">>, <<"]">>}
    [] rs = 13 -> {<<"1">>, <<"e">>, <<"-">>, <<"x">>}
    [] rs = 14 -> {<<"a">>, <<"$">>, <<"!">>}
    [] rs = 15 -> {<<"C3", "A9">>, <<"(">>, <<")">>}
    [] rs = 16 -> {<<"\\">>, <<"a">>, <<"b">>, <<"?">>}

\* Spec::rule; lexemes are the dense 0-based indices of the rules.
Rule(rs, lexeme) == RuleSet(rs)[lexeme + 1]
Lexemes(rs) == 0..(Len(RuleSet(rs)) - 1)

\* Longer files lexed besides the short ones: for the number rule,
\* `1_000.5e-7`, `1._5`, `1_.5` and `1_1.5e1_`.
SampleTexts(rs) ==
  IF rs = 4
    THEN {<<"1", "_", "0", "0", "0", ".", "5", "e", "-", "7">>,
          <<"1", ".", "_", "5">>,
          <<"1", "_", ".", "5">>,
          <<"1", "_", "1", ".", "5", "e", "1", "_">>}
  ELSE {}

\* Every file of at most MaxLen characters over the rule set's alphabet, and
\* the longer samples.
Texts(rs) ==
  {Flatten(cs) : cs \in UNION {[1..n -> Alphabet(rs)] : n \in 0..MaxLen}}
    \cup SampleTexts(rs)

\* -------------------------------------------------------------------- DFA
\* The surface patterns the automaton is compiled from.  A pattern is one of
\*   lits:    a set of literals;
\*   rust:    pre . l . repeating* . r     (pre one of a set of prefixes);
\*   cxx:     pre . l . identifier . r;
\*   ident:   prefix . identifier . suffix;
\*   digital: [sign] prefix digits ((point | separator | exponent [sign]) digits)* suffix.
\* Acc(pat, w): w is a word of the pattern.  Live(pat, w): w is a prefix of
\* a word of the pattern, so the automaton has not died after reading w.

\* An identifier: one start character followed by continue characters.
IdentBody(rule, w) ==
  LET cs == Chars(w)
  IN /\ w # <<>>
     /\ w[Len(w)] \notin LeadBytes
     /\ is_valid_start(rule, cs[1])
     /\ \A i \in 2..Len(cs) : is_valid_continue(rule, cs[i])

IdentBodyLive(rule, w) ==
  \/ w = <<>>
  \/ IdentBody(rule, w)
  \/ /\ w[Len(w)] \in LeadBytes
     /\ \E b \in ContBytes : IdentBody(rule, w \o <<b>>)

AffixedAcc(affixes, w, Body(_)) ==
  \E i \in 1..Len(affixes.prefixes), j \in 1..Len(affixes.suffixes) :
    LET p == affixes.prefixes[i]
        q == affixes.suffixes[j]
    IN /\ StartsWith(w, p)
       /\ Len(p) + Len(q) <= Len(w)
       /\ EndsWith(w, q)
       /\ Body(SubSeq(w, Len(p) + 1, Len(w) - Len(q)))

AffixedLive(affixes, w, Body(_), BodyLive(_)) ==
  \E i \in 1..Len(affixes.prefixes) :
    LET p == affixes.prefixes[i]
        m == From(w, Len(p))
    IN \/ StartsWith(p, w)
       \/ /\ StartsWith(w, p)
          /\ \/ BodyLive(m)
             \/ \E k \in 0..(Len(m) - 1), j \in 1..Len(affixes.suffixes) :
                  /\ Body(SubSeq(m, 1, k))
                  /\ StartsWith(affixes.suffixes[j], From(m, k))

\* The widest radix of a digital rule: the automaton reads digits of it.
MaxRadix(rule) ==
  Max({rule.mant.radix} \cup {rule.exps[i][2].radix : i \in 1..Len(rule.exps)})

\* digits ((point | separator | exponent [sign]) digits)*, read from offset i
\* of w up to its end; `first` is set until the first digit run starts.
RECURSIVE DigitalRun(_, _, _, _)
DigitalRun(rule, w, i, live) ==
  IF i = Len(w) THEN TRUE
  ELSE
    LET rest == From(w, i)
        c == FirstChar(rest)
        sep == rule.separator
    IN \/ (is_digit(c, MaxRadix(rule)) /\ DigitalRun(rule, w, i + Len(c), live))
       \/ (sep # <<>> /\ StartsWith(rest, sep)
             /\ DigitalRun(rule, w, i + Len(sep), live))
       \/ (StartsWith(rest, rule.point)
             /\ DigitalRun(rule, w, i + Len(rule.point), live))
       \/ \E e \in 1..Len(rule.exps) :
            LET pre == rule.exps[e][1]
                signs == rule.exps[e][2].signs
            IN \/ (live /\ StartsWith(pre, rest))
               \/ /\ StartsWith(rest, pre)
                  /\ \/ DigitalRun(rule, w, i + Len(pre), live)
                     \/ \E g \in 1..Len(signs) :
                          LET sg == signs[g].text
                              after == From(rest, Len(pre))
                          IN \/ (live /\ StartsWith(sg, after))
                             \/ (StartsWith(after, sg)
                                   /\ DigitalRun(rule, w, i + Len(pre) + Len(sg), live))
       \/ (live /\ sep # <<>> /\ StartsWith(sep, rest))
       \/ (live /\ StartsWith(rule.point, rest))

\* The digits of a number start with a digit unless a prefix introduces them.
DigitalBody(rule, w) ==
  /\ w # <<>>
  /\ is_digit(FirstChar(w), MaxRadix(rule))
  /\ DigitalRun(rule, w, 0, FALSE)

DigitalBodyLive(rule, w) ==
  \/ w = <<>>
  \/ (is_digit(FirstChar(w), MaxRadix(rule)) /\ DigitalRun(rule, w, 0, TRUE))

DigitalSigns(rule) ==
  {<<>>} \cup {rule.mant.signs[g].text : g \in 1..Len(rule.mant.signs)}

Acc(pat, w) ==
  CASE pat.kind = "lits" -> w \in pat.lits
    [] pat.kind = "rust" ->
         \E pre \in pat.pres, k \in 0..Len(w) :
           w = pre \o pat.l \o Repeat(pat.rep, k) \o pat.r
    [] pat.kind = "cxx" ->
         \E pre \in pat.pres :
           LET head == pre \o pat.l
           IN /\ StartsWith(w, head)
              /\ Len(head) + Len(pat.r) <= Len(w)
              /\ EndsWith(w, pat.r)
              /\ AffixedAcc(pat.ident.affixes,
                            SubSeq(w, Len(head) + 1, Len(w) - Len(pat.r)),
                            LAMBDA b : IdentBody(pat.ident, b))
    [] pat.kind = "ident" ->
         AffixedAcc(pat.rule.affixes, w, LAMBDA b : IdentBody(pat.rule, b))
    [] pat.kind = "digital" ->
         \E sg \in DigitalSigns(pat.rule) :
           /\ StartsWith(w, sg)
           /\ AffixedAcc(pat.rule.affixes, From(w, Len(sg)),
                         LAMBDA b : DigitalBody(pat.rule, b))

Live(pat, w) ==
  \/ Acc(pat, w)
  \/ CASE pat.kind = "lits" -> \E l \in pat.lits : StartsWith(l, w)
       [] pat.kind = "rust" ->
            \E pre \in pat.pres, k \in 0..Len(w) :
              StartsWith(pre \o pat.l \o Repeat(pat.rep, k) \o pat.r, w)
       [] pat.kind = "cxx" ->
            \E pre \in pat.pres :
              LET head == pre \o pat.l
                  m == From(w, Len(head))
              IN \/ StartsWith(head, w)
                 \/ /\ StartsWith(w, head)
                    /\ \/ AffixedLive(pat.ident.affixes, m,
                                      LAMBDA b : IdentBody(pat.ident, b),
                                      LAMBDA b : IdentBodyLive(pat.ident, b))
                       \/ \E k \in 1..(Len(m) - 1) :
                            /\ AffixedAcc(pat.ident.affixes, SubSeq(m, 1, k),
                                          LAMBDA b : IdentBody(pat.ident, b))
                            /\ StartsWith(pat.r, From(m, k))
       [] pat.kind = "ident" ->
            AffixedLive(pat.rule.affixes, w,
                        LAMBDA b : IdentBody(pat.rule, b),
                        LAMBDA b : IdentBodyLive(pat.rule, b))
       [] pat.kind = "digital" ->
            \E sg \in DigitalSigns(pat.rule) :
              \/ StartsWith(sg, w)
              \/ /\ StartsWith(w, sg)
                 /\ AffixedLive(pat.rule.affixes, From(w, Len(sg)),
                                LAMBDA b : DigitalBody(pat.rule, b),
                                LAMBDA b : DigitalBodyLive(pat.rule, b))

Lits(S) == [kind |-> "lits", lits |-> S]

\* The surface patterns of one side of a bracket, each preceded by one of
\* the prefixes `pres`.
BracketPattern(b, is_close, pres) ==
  CASE b.kind = "Paired" ->
         Lits({pre \o (IF is_close THEN b.close ELSE b.open) : pre \in pres})
    [] b.kind = "RustLike" ->
         LET side == IF is_close THEN b.close ELSE b.open
         IN [kind |-> "rust", pres |-> pres, l |-> side[1],
             rep |-> b.repeating, r |-> side[2]]
    [] b.kind = "CxxLike" ->
         LET side == IF is_close THEN b.close ELSE b.open
         IN [kind |-> "cxx", pres |-> pres, l |-> side[1],
             ident |-> b.ident_rule, r |-> side[2]]

\* The surface patterns of a rule, each with the candidate it stands for.
Surfaces(rule, lexeme) ==
  LET cand(is_close, pat) ==
        [lexeme |-> lexeme, is_close |-> is_close, pat |-> pat]
  IN CASE rule.kind = "Keyword" -> {cand(FALSE, Lits({rule.value}))}
       [] rule.kind \in {"Bracket", "Comment"} ->
            {cand(FALSE, BracketPattern(rule.bracket, FALSE, {<<>>})),
             cand(TRUE, BracketPattern(rule.bracket, TRUE, {<<>>}))}
       [] rule.kind = "Quoted" ->
            {cand(FALSE, BracketPattern(rule.bracket, FALSE,
               {rule.affixes.prefixes[i] : i \in 1..Len(rule.affixes.prefixes)}))}
       [] rule.kind = "Ident" -> {cand(FALSE, [kind |-> "ident", rule |-> rule])}
       [] rule.kind = "Digital" ->
            {cand(FALSE, [kind |-> "digital", rule |-> rule])}
       [] rule.kind = "LineEnd" ->
            {cand(FALSE, Lits({<<"\n">>} \cup (IF rule.cancel = <<>> THEN {}
                                                ELSE {rule.cancel})))}

AllSurfaces(rs) == UNION {Surfaces(Rule(rs, l), l) : l \in Lexemes(rs)}

NoMatch == [len |-> 0, extra |-> 0, candidates |-> {}]

\* Dfa::search: the longest match at the cursor.  len is the longest accept,
\* extra the distance from it to the point where every pattern has died,
\* candidates the sides of the rules that accept at len.
Search(rs, text, cursor) ==
  LET rest == From(text, cursor)
      surf == AllSurfaces(rs)
      accepts == {n \in 1..Len(rest) :
                    \E s \in surf : Acc(s.pat, SubSeq(rest, 1, n))}
      alive == {n \in 0..Len(rest) :
                  \A k \in 1..n : \E s \in surf : Live(s.pat, SubSeq(rest, 1, k))}
  IN IF accepts = {} THEN NoMatch
     ELSE LET len == Max(accepts)
          IN [len |-> len,
              extra |-> Max(alive \cup {len}) - len,
              candidates |->
                {[lexeme |-> s.lexeme, is_close |-> s.is_close] :
                   s \in {t \in surf : Acc(t.pat, SubSeq(rest, 1, len))}}]

\* ------------------------------------------------------------ lexer state
VARIABLES
  rs,               \* the rule set (Spec) of this pass
  text,             \* the file's text, without the trailing sentinel byte
  pc,               \* the driver's position in its loop
  cursor,           \* Lexer::cursor
  tokens,           \* the token buffer: records [lexeme, end, meta]
  closers,          \* the stack of expected closers of the open brackets
  line_end_cancel,  \* the line-end cancel latch
  unexpected,       \* lex's `unexpected` cell: start of the pending run
  diags,            \* the report: the diagnostics in call order
  last,             \* the match the latest emit call worked on
  \* the source context
  files,            \* Context: the files, append-only
  ranges,           \* Context: the real ranges, keyed by atomic span ID
  synthetics,       \* Context: the synthetic strings
  comments,         \* Context: span -> its comment spans
  spans,            \* every span handed out so far, with what it showed then
  log,              \* the add_comment calls so far, in order
  pending,          \* the append_comment calls between their two calls
  outcome,          \* what the latest context operation returned
  ops,              \* number of calls made on the context and its spans
  \* a rule under construction
  built,            \* the Affixes of the rule being built
  calls,            \* the with_prefix(es) and with_suffix(es) calls so far
  \* threads on the lock of one context
  policy,           \* whether a waiting writer holds back new readers
  rwlock,           \* RwLock<State>: the read guards out, the write guard
  th,               \* each thread: where it is and what it holds
  \* a yarn under construction
  yarn,             \* the latest call of a RawYarn constructor and its result
  buf,              \* from_fmt_args: the Buf being written to
  written           \* from_fmt_args: the strings written so far

lexvars == <<rs, text, pc, cursor, tokens, closers, line_end_cancel,
             unexpected, diags, last>>
ctxvars == <<files, ranges, synthetics, comments, spans, log, pending,
             outcome, ops>>
vars == <<rs, text, pc, cursor, tokens, closers, line_end_cancel,
          unexpected, diags, last,
          files, ranges, synthetics, comments, spans, log, pending, outcome,
          ops,
          built, calls, policy, rwlock, th, yarn, buf, written>>
bldvars == <<built, calls>>
lockvars == <<policy, rwlock, th>>
yarnvars == <<yarn, buf, written>>
sidevars == <<policy, rwlock, th, yarn, buf, written>>

Sp(lo, hi) == [lo |-> lo, hi |-> hi]
SpLen(sp) == sp.hi - sp.lo
NoSpan == [set |-> FALSE, lo |-> 0, hi |-> 0]
SomeSpan(sp) == [set |-> TRUE, lo |-> sp.lo, hi |-> sp.hi]

NoMeta == [kind |-> "None"]
Offset(c, m) == [kind |-> "Offset", cursor |-> c, meta |-> m]

\* One call on the report: the diagnostic's name, the byte range of its span
\* and the place in the code that made the call.
Diag(name, lo, hi, site) == [name |-> name, lo |-> lo, hi |-> hi, site |-> site]

\* The lexer as a value, for the operators that transform it.  `panic` is
\* set when the call does not return: when a slice of the text is out of
\* bounds or off a char boundary, when bug! is reached, or when a loop never
\* ends, which `hang` tells apart from the others.
Lexer ==
  [cursor |-> cursor, tokens |-> tokens, closers |-> closers,
   line_end_cancel |-> line_end_cancel, diags |-> diags, panic |-> FALSE,
   hang |-> FALSE]

\* File::text(range) panics unless both ends are char boundaries of the text.
CanSlice(t, lo, hi) == lo <= hi /\ IsCharBoundary(t, lo) /\ IsCharBoundary(t, hi)

\* Lexer::add_token: the token ends len bytes after the cursor, which moves
\* to its end.
add_token(L, lexeme, len, meta) ==
  [L EXCEPT !.tokens = Append(@, [lexeme |-> lexeme, end |-> L.cursor + len,
                                  meta |-> meta]),
            !.cursor = @ + len]

report(L, d) == [L EXCEPT !.diags = Append(@, d)]

\* Lexer::push_closer: the opener is the token about to be added.
push_closer(L, lexeme, close) ==
  [L EXCEPT !.closers = Append(@, [lexeme |-> lexeme, close |-> close,
                                   open_idx |-> Len(L.tokens) + 1])]

\* Lexer::pop_closer: when the text at the cursor starts with the closer on
\* top of the stack, pop it and add the closing token, linking it and its
\* opener through their Offset metadata.
pop_closer(L, t) ==
  IF L.closers = <<>> THEN L
  ELSE
    LET top == L.closers[Len(L.closers)]
        idx == Len(L.tokens) + 1
    IN IF ~StartsWith(From(t, L.cursor), top.close) THEN L
       ELSE
         LET linked == [L EXCEPT
                          !.tokens[top.open_idx].meta = Offset(idx - top.open_idx, 0),
                          !.closers = SubSeq(@, 1, Len(@) - 1)]
         IN add_token(linked, top.lexeme, Len(top.close),
                      Offset(top.open_idx - idx, 0))

HasLineEnd(r) == \E l \in Lexemes(r) : Rule(r, l).kind = "LineEnd"

\* The whitespace at the start of s that Lexer::skip_whitespace skips.  The
\* function is in rt/lexer.rs, which is not among the sources, and follows
\* the specification (4.E): a newline "can become a line-end token or
\* whitespace" (item 4), so it is left for the LineEnd rule when the rule
\* set has one; after a cancel, "all text up to (and including) the next
\* actual "\n" must be whitespace or comments" (item 8), so while the latch
\* is set the newline is whitespace and ends what the latch asks for.  The
\* specification gives this outcome and not the place where the latch is
\* cleared; emit itself has no arm that clears it without a diagnostic
\* (emit2.rs 262-287).
RECURSIVE WhitespaceLen(_, _, _)
WhitespaceLen(r, s, latch) ==
  LET c == FirstChar(s)
  IN IF s = <<>> \/ ~IsWhitespace(c) THEN 0
     ELSE IF c = <<"\n">> /\ HasLineEnd(r)
       THEN (IF latch THEN 1 ELSE 0)
     ELSE Len(c) + WhitespaceLen(r, From(s, Len(c)), latch)

\* Lexer::skip_whitespace: adds the WHITESPACE token, if there is any; the
\* newline taken after a cancel clears the latch.
skip_whitespace(L, r, t) ==
  LET len == WhitespaceLen(r, From(t, L.cursor), L.line_end_cancel.set)
      swallowed == len > 0 /\ t[L.cursor + len] = "\n" /\ HasLineEnd(r)
  IN IF len = 0 THEN L
     ELSE add_token([L EXCEPT !.line_end_cancel =
                                IF swallowed THEN NoSpan ELSE @],
                    WHITESPACE, len, NoMeta)

\* Lexer::finish: every bracket still open is reported as unclosed, at its
\* opener.
RECURSIVE Unclosed(_, _)
Unclosed(toks, cl) ==
  IF cl = <<>> THEN <<>>
  ELSE LET c == cl[1]
           lo == IF c.open_idx = 1 THEN 0 ELSE toks[c.open_idx - 1].end
       IN <<Diag("unclosed", lo, toks[c.open_idx].end, "finish")>>
            \o Unclosed(toks, Tail(cl))

finish(L) == [L EXCEPT !.diags = @ \o Unclosed(L.tokens, L.closers)]

\* -------------------------------------------------------- affix stripping
\* Span::split_at and Span::split_around.
split_at(range, n) ==
  <<Sp(range.lo, range.lo + n), Sp(range.lo + n, range.hi)>>
split_around(range, pre, suf) ==
  <<Sp(range.lo, range.lo + pre), Sp(range.lo + pre, range.hi - suf),
    Sp(range.hi - suf, range.hi)>>

TextOf(t, range) == Slice(t, range.lo, range.hi)

\* The lengths of the entries of `list` that satisfy Fits.
FittingLens(list, Fits(_)) == {Len(list[i]) : i \in {j \in 1..Len(list) : Fits(list[j])}}

\* .max().unwrap_or(0)
MaxOrZero(lens) == IF lens = {} THEN 0 ELSE Max(lens)

\* A find_prefix that takes the shortest declared prefix the text starts
\* with: .min() in the place of .max().
find_prefix_shortest(t, range, affixes) ==
  LET lens == FittingLens(affixes.prefixes, LAMBDA y : StartsWith(TextOf(t, range), y))
      cut == split_at(range, IF lens = {} THEN 0 ELSE Min(lens))
  IN [prefix |-> cut[1], range |-> cut[2], bug |-> lens = {}]

\* find_prefix: the longest declared prefix the text starts with.  `bug` is
\* set when none does.
find_prefix(t, range, affixes) ==
  LET lens == FittingLens(affixes.prefixes, LAMBDA y : StartsWith(TextOf(t, range), y))
      cut == split_at(range, MaxOrZero(lens))
  IN [prefix |-> cut[1], range |-> cut[2], bug |-> lens = {}]

\* find_suffix: the longest declared suffix the text ends with.
find_suffix(t, range, affixes) ==
  LET lens == FittingLens(affixes.suffixes, LAMBDA y : EndsWith(TextOf(t, range), y))
      cut == split_at(range, SpLen(range) - MaxOrZero(lens))
  IN [range |-> cut[1], suffix |-> cut[2], bug |-> lens = {}]

\* The three spans find_affixes returns, from the two cuts it makes.
Stripped(p, q) ==
  [prefix |-> p.prefix, range |-> q.range, suffix |-> q.suffix,
   bug |-> p.bug \/ q.bug]

find_affixes(t, range, affixes) ==
  LET p == find_prefix(t, range, affixes)
  IN Stripped(p, find_suffix(t, p.range, affixes))

\* The four spans find_affixes_partial returns: the sign and the three of a.
WithSign(sign, a) ==
  [sign |-> sign, prefix |-> a.prefix, range |-> a.range, suffix |-> a.suffix,
   bug |-> a.bug]

\* The texts of a list of signs.
SignTexts(signs) == [g \in 1..Len(signs) |-> signs[g].text]

find_affixes_partial(t, range, rule, is_close) ==
  LET ep == Sp(0, 0)
  IN CASE rule.kind = "Ident" ->
            WithSign(ep, find_affixes(t, range, rule.affixes))
       [] rule.kind = "Digital" ->
            LET lens == FittingLens(SignTexts(rule.mant.signs),
                                    LAMBDA y : StartsWith(TextOf(t, range), y))
                cut == split_at(range, MaxOrZero(lens))
            IN WithSign(cut[1], find_affixes(t, cut[2], rule.affixes))
       [] rule.kind = "Quoted" /\ ~is_close ->
            LET p == find_prefix(t, range, rule.affixes)
            IN [sign |-> ep, prefix |-> p.prefix, range |-> p.range,
                suffix |-> ep, bug |-> p.bug]
       [] rule.kind = "Quoted" /\ is_close ->
            LET q == find_suffix(t, range, rule.affixes)
            IN [sign |-> ep, prefix |-> ep, range |-> q.range,
                suffix |-> q.suffix, bug |-> q.bug]
       [] OTHER ->
            [sign |-> ep, prefix |-> ep, range |-> range, suffix |-> ep,
             bug |-> FALSE]

\* ------------------------------------------------- emit: candidate choice
\* Lexeme2's derived order: by lexeme, then open before close.
CandLess(a, b) ==
  \/ a.lexeme < b.lexeme
  \/ (a.lexeme = b.lexeme /\ ~a.is_close /\ b.is_close)

\* match_.candidates.sort_unstable()
RECURSIVE SortCandidates(_)
SortCandidates(cands) ==
  IF cands = {} THEN <<>>
  ELSE LET least == CHOOSE c \in cands : \A d \in cands \ {c} : CandLess(c, d)
       IN <<least>> \o SortCandidates(cands \ {least})

\* The ASCII-only test of the 'verify loop.
AllAsciiOrListed(rule, s) ==
  \A i \in 1..Len(Chars(s)) :
    LET c == Chars(s)[i]
    IN IsAscii(c) \/ c \in rule.extra_continues \/ c \in rule.extra_starts

\* The two tests the 'verify loop makes on an identifier: its length and,
\* for an ASCII-only rule, its characters.
NameFits(rule, s) ==
  /\ CharCount(s) >= rule.min_len
  /\ (rule.ascii_only => AllAsciiOrListed(rule, s))

\* The digit machine of the 'verify loop, run on the text s.  d holds
\* is_mant (digits is still &rule.mant), radix, digit_blocks,
\* digits_in_block and last_was_sep.
RECURSIVE VerifyDigits(_, _, _)
VerifyDigits(rule, s, d) ==
  IF s = <<>> THEN TRUE
  ELSE
    LET c == FirstChar(s)
        cc == rule.corner_cases
        hits == {i \in 1..Len(rule.exps) : StartsWith(s, rule.exps[i][1])}
    IN IF rule.separator # <<>> /\ StartsWith(s, rule.separator) THEN
         LET ok == IF d.digit_blocks # 0 THEN cc.around_point
                   ELSE IF d.is_mant THEN cc.prefix
                   ELSE cc.around_exp
         IN IF d.digits_in_block = 0 /\ ~ok THEN FALSE
            ELSE VerifyDigits(rule, From(s, Len(rule.separator)),
                              [d EXCEPT !.last_was_sep = TRUE])
       ELSE IF StartsWith(s, rule.point) THEN
         IF d.last_was_sep /\ ~cc.around_point THEN FALSE
         ELSE VerifyDigits(rule, From(s, Len(rule.point)),
                           [d EXCEPT !.digit_blocks = @ + 1,
                                     !.digits_in_block = 0,
                                     !.last_was_sep = FALSE])
       ELSE IF is_digit(c, d.radix) THEN
         VerifyDigits(rule, From(s, Len(c)),
                      [d EXCEPT !.last_was_sep = FALSE,
                                !.digits_in_block = @ + 1])
       ELSE IF hits # {} THEN
         IF d.last_was_sep /\ ~cc.around_exp THEN FALSE
         ELSE VerifyDigits(rule, From(s, Len(rule.exps[Min(hits)][1])),
                           [is_mant |-> FALSE,
                            radix |-> rule.exps[Min(hits)][2].radix,
                            digit_blocks |-> 0, digits_in_block |-> 0,
                            last_was_sep |-> FALSE])
       ELSE FALSE

\* What is inside a CxxLike bracket, between the two halves of the side
\* that was read, split by the identifier rule's affixes with find_affixes.
CxxAffixes(t, range, b, is_close) ==
  LET side == IF ~is_close THEN b.open ELSE b.close
  IN find_affixes(t, split_around(range, Len(side[1]), Len(side[2]))[2],
                  b.ident_rule.affixes)

\* The name inside a CxxLike bracket: what the affixes leave.
CxxName(t, range, b, is_close) == CxxAffixes(t, range, b, is_close).range

\* The find_affixes of a CxxLike bracket's name reaches bug!: no declared
\* prefix or no declared suffix of the identifier rule fits.
CxxBug(t, range, rule, is_close) ==
  /\ rule.kind \in {"Bracket", "Comment", "Quoted"}
  /\ rule.bracket.kind = "CxxLike"
  /\ CxxAffixes(t, range, rule.bracket, is_close).bug

\* One round of the 'verify loop: whether the candidate (rule, is_close) of
\* the match `span` has no errors.  A round that reaches bug! on the name
\* of a CxxLike bracket passes no candidate.
ValidCandidate(t, span, rule, is_close) ==
  CASE rule.kind \in {"Bracket", "Comment", "Quoted"} ->
         \/ rule.bracket.kind # "CxxLike"
         \/ /\ ~CxxBug(t, find_affixes_partial(t, span, rule, is_close).range,
                       rule, is_close)
            /\ NameFits(rule.bracket.ident_rule,
                        TextOf(t, CxxName(t, find_affixes_partial(t, span, rule,
                                                                  is_close).range,
                                          rule.bracket, is_close)))
    [] rule.kind = "Ident" -> NameFits(rule, TextOf(t, span))
    [] rule.kind = "Digital" ->
         /\ TextOf(t, span) # <<>>
         /\ VerifyDigits(rule, TextOf(t, span),
                         [is_mant |-> TRUE, radix |-> rule.mant.radix,
                          digit_blocks |-> 0, digits_in_block |-> 0,
                          last_was_sep |-> FALSE])
    [] OTHER -> TRUE

\* A 'verify loop without its break: the last candidate that has no errors.
FirstValidNoBreak(r, t, span, sorted) ==
  LET good == {i \in 1..Len(sorted) :
                 ValidCandidate(t, span, Rule(r, sorted[i].lexeme),
                                sorted[i].is_close)}
  IN IF good = {} THEN 0 ELSE Max(good)

\* The position in the sorted list of the first candidate that has no
\* errors; 0 when every candidate has one.
FirstValid(r, t, span, sorted) ==
  LET good == {i \in 1..Len(sorted) :
                 ValidCandidate(t, span, Rule(r, sorted[i].lexeme),
                                sorted[i].is_close)}
  IN IF good = {} THEN 0 ELSE Min(good)

\* best.unwrap_or(match_.candidates[0])
BestAt(sorted, g) == IF g = 0 THEN sorted[1] ELSE sorted[g]

\* The first candidate of the sorted list that has no errors, or the first
\* of the list when every candidate has one.
Best(r, t, span, cands) ==
  BestAt(SortCandidates(cands), FirstValid(r, t, span, SortCandidates(cands)))

\* The 'verify loop splits every candidate it looks at by its affixes, and
\* the name of a CxxLike bracket by the identifier rule's; emit splits the
\* chosen one: whether one of these splits reaches bug!.
AffixBug(r, t, span, sorted, g) ==
  \E i \in 1..(IF g = 0 THEN Len(sorted) ELSE g) :
    \/ find_affixes_partial(t, span, Rule(r, sorted[i].lexeme),
                            sorted[i].is_close).bug
    \/ CxxBug(t, find_affixes_partial(t, span, Rule(r, sorted[i].lexeme),
                                      sorted[i].is_close).range,
              Rule(r, sorted[i].lexeme), sorted[i].is_close)

\* A variant of the mirror that leaves out what stood between the two sides
\* of the opener.
MirroredPlain(t, range, rule, is_close) ==
  IF rule.kind \notin {"Bracket", "Comment", "Quoted"}
    THEN [set |-> FALSE, text |-> <<>>]
  ELSE
    LET b == rule.bracket
    IN CASE b.kind = "Paired" ->
              [set |-> TRUE, text |-> IF is_close THEN b.open ELSE b.close]
         [] b.kind \in {"RustLike", "CxxLike"} ->
              LET replace == IF ~is_close THEN b.close ELSE b.open
              IN [set |-> TRUE, text |-> replace[1] \o replace[2]]

\* The mirrored bracket of `best`: the closer an opener expects, or the
\* opener a closer stands for.  `set` is FALSE for rules without brackets.
Mirrored(t, range, rule, is_close) ==
  IF rule.kind \notin {"Bracket", "Comment", "Quoted"}
    THEN [set |-> FALSE, text |-> <<>>]
  ELSE
    LET b == rule.bracket
    IN CASE b.kind = "Paired" ->
              [set |-> TRUE, text |-> IF is_close THEN b.open ELSE b.close]
         [] b.kind \in {"RustLike", "CxxLike"} ->
              LET remove == IF ~is_close THEN b.open ELSE b.close
                  replace == IF ~is_close THEN b.close ELSE b.open
                  mid == split_around(range, Len(remove[1]), Len(remove[2]))[2]
              IN [set |-> TRUE, text |-> replace[1] \o TextOf(t, mid) \o replace[2]]

\* The diagnostics on the name of a CxxLike bracket.
NameDiags(t, ir, name) ==
  (IF CharCount(TextOf(t, name)) < ir.min_len
     THEN <<Diag("ident_too_small", name.lo, name.hi, "mirror")>> ELSE <<>>)
  \o (IF ~AllAsciiOrListed(ir, TextOf(t, name))
        THEN <<Diag("non_ascii_in_ident", name.lo, name.hi, "mirror")>>
        ELSE <<>>)

\* The diagnostics emit reports while it computes the mirror of a CxxLike
\* bracket.
MirrorDiags(t, range, rule, is_close) ==
  IF rule.kind \notin {"Bracket", "Comment", "Quoted"} THEN <<>>
  ELSE IF rule.bracket.kind # "CxxLike" THEN <<>>
  ELSE NameDiags(t, rule.bracket.ident_rule,
                 CxxName(t, range, rule.bracket, is_close))

\* ------------------------------------------------------ emit: the comment
\* The scan of the comment arm: from `cur`, to the close that brings the
\* depth to 0 or to the end of the file.
RECURSIVE CommentScanFlat(_, _, _, _, _, _)
CommentScanFlat(t, can_nest, open, close, cur, depth) ==
  LET rest == From(t, cur)
  IN IF rest = <<>> THEN [cursor |-> cur, depth |-> depth]
     ELSE IF StartsWith(rest, close)
       THEN [cursor |-> cur + Len(close), depth |-> 0]
     ELSE CommentScanFlat(t, can_nest, open, close, cur + Len(FirstChar(rest)),
                          depth)

RECURSIVE CommentScan(_, _, _, _, _, _)
CommentScan(t, can_nest, open, close, cur, depth) ==
  LET rest == From(t, cur)
  IN IF rest = <<>> THEN [cursor |-> cur, depth |-> depth]
     ELSE IF can_nest /\ StartsWith(rest, open)
       THEN CommentScan(t, can_nest, open, close, cur + Len(open), depth + 1)
     ELSE IF StartsWith(rest, close)
       THEN (IF depth - 1 = 0
               THEN [cursor |-> cur + Len(close), depth |-> 0]
               ELSE CommentScan(t, can_nest, open, close, cur + Len(close), depth - 1))
     ELSE CommentScan(t, can_nest, open, close, cur + Len(FirstChar(rest)), depth)

CommentCropNone(close, depth) == 0

\* The number of bytes the comment arm takes back from the end of the scan:
\* the newline that closed a line comment.
CommentCrop(close, depth) == IF close = <<"\n">> /\ depth = 0 THEN 1 ELSE 0

\* A comment arm that measures its token from the end of the comment back
\* to the cursor.
EmitCommentBackwards(L, t, rule, lexeme, span, end, open, close) ==
  LET sc == CommentScan(t, rule.can_nest, open, close, end, 1)
      cur == sc.cursor - CommentCrop(close, sc.depth)
  IN add_token(L, lexeme, L.cursor - cur, NoMeta)

\* The Any::Comment arm.  `end` is the end of the match with its extra
\* bytes, `open` the text of the opener.
EmitComment(L, t, rule, lexeme, span, end, open, close) ==
  LET sc == CommentScan(t, rule.can_nest, open, close, end, 1)
      L1 == IF close # <<"\n">> /\ sc.depth # 0
              THEN report(L, Diag("unclosed", span.lo, span.hi, "comment"))
              ELSE L
      cur == sc.cursor - CommentCrop(close, sc.depth)
  IN add_token(L1, lexeme, cur - L.cursor, NoMeta)

\* ------------------------------------------------------- emit: the number
NoSign == [set |-> FALSE, value |-> "", lo |-> 0, hi |-> 0]
DigitBlocks(prefix, sign, which_exp) ==
  [prefix |-> prefix, sign |-> sign, blocks |-> <<>>, which_exp |-> which_exp]

\* iter.filter(..).max_by_key(len): the last of the longest entries of
\* `signs` that s starts with, 0 when there is none.
LongestSign(signs, s) ==
  LET fit == {g \in 1..Len(signs) : StartsWith(s, signs[g].text)}
  IN IF fit = {} THEN 0
     ELSE Max({g \in fit : \A h \in fit : Len(signs[h].text) <= Len(signs[g].text)})

\* A variant that pushes the empty block at the end of the run.
PushBlockEnd(chunks, blk) ==
  [chunks EXCEPT ![Len(chunks)].blocks = Append(@, Sp(blk.hi, blk.hi))]

PushBlock(chunks, blk) ==
  [chunks EXCEPT ![Len(chunks)].blocks = Append(@, blk)]

\* The 'digits loop of the Any::Digital arm.  D holds chunks, offset, the
\* text s still to read, is_mant, block_start, last_was_sep and the
\* diagnostics reported.
RECURSIVE DigitLoop(_, _, _)
DigitLoop(rule, range, D) ==
  IF D.s = <<>> THEN D
  ELSE
    LET c == FirstChar(D.s)
        sep == rule.separator
        cc == rule.corner_cases
        chunk == D.chunks[Len(D.chunks)]
        at(a, b) == Sp(range.lo + a, range.lo + b)
        sepDiag(site) ==
          <<Diag("unexpected_separator", range.lo + D.offset,
                 range.lo + D.offset + Len(sep), site)>>
        hits == {i \in 1..Len(rule.exps) : StartsWith(D.s, rule.exps[i][1])}
    IN IF sep # <<>> /\ StartsWith(D.s, sep) THEN
         LET ok == IF chunk.blocks # <<>> THEN cc.around_point
                   ELSE IF D.is_mant THEN cc.prefix
                   ELSE cc.around_exp
         IN DigitLoop(rule, range,
              [D EXCEPT !.diags = IF D.block_start = D.offset /\ ~ok
                                    THEN @ \o sepDiag("block_start") ELSE @,
                        !.s = From(@, Len(sep)),
                        !.offset = @ + Len(sep),
                        !.last_was_sep = TRUE])
       ELSE IF StartsWith(D.s, rule.point) THEN
         DigitLoop(rule, range,
           [D EXCEPT !.diags = IF D.last_was_sep /\ ~cc.around_point
                                 THEN @ \o sepDiag("before_point") ELSE @,
                     !.chunks = PushBlock(@, at(D.block_start, D.offset)),
                     !.s = From(@, Len(rule.point)),
                     !.offset = @ + Len(rule.point),
                     !.block_start = D.offset + Len(rule.point),
                     !.last_was_sep = FALSE])
       ELSE IF hits # {} THEN
         LET i == Min(hits)
             pre == rule.exps[i][1]
             exp == rule.exps[i][2]
             rest == From(D.s, Len(pre))
             off1 == D.offset + Len(pre)
             g == LongestSign(exp.signs, rest)
             slen == IF g = 0 THEN 0 ELSE Len(exp.signs[g].text)
             sign == IF g = 0 THEN NoSign
                     ELSE [set |-> TRUE, value |-> exp.signs[g].value,
                           lo |-> range.lo + off1, hi |-> range.lo + off1 + slen]
             prefix == IF Len(pre) = 0 THEN Sp(0, 0) ELSE at(D.offset, off1)
         IN DigitLoop(rule, range,
              [D EXCEPT !.diags = IF D.last_was_sep /\ ~cc.around_exp
                                    THEN @ \o sepDiag("before_exp") ELSE @,
                        !.chunks = Append(PushBlock(@, at(D.block_start, D.offset)),
                                          DigitBlocks(prefix, sign, i - 1)),
                        !.s = From(rest, slen),
                        !.offset = off1 + slen,
                        !.is_mant = FALSE,
                        !.block_start = off1 + slen,
                        !.last_was_sep = FALSE])
       ELSE DigitLoop(rule, range,
              [D EXCEPT !.s = From(@, Len(c)), !.offset = @ + Len(c)])

\* DigitBlocks::prefix: [0, 0] stands for no prefix.
HasPrefix(chunk) == chunk.prefix # Sp(0, 0)

\* Span::union of the chunk's prefix and blocks.
ChunkSpan(chunk) ==
  LET parts == (IF HasPrefix(chunk) THEN {chunk.prefix} ELSE {})
                 \cup {chunk.blocks[i] : i \in 1..Len(chunk.blocks)}
  IN Sp(Min({q.lo : q \in parts}), Max({q.hi : q \in parts}))

\* The radix check of one digit block: s is what is left of its text.
RECURSIVE BlockDigits(_, _, _, _)
BlockDigits(rule, range, digits, s) ==
  IF s = <<>> THEN <<>>
  ELSE
    LET c == FirstChar(s)
        cur == range.hi - Len(s)
    IN IF rule.separator # <<>> /\ StartsWith(s, rule.separator)
         THEN BlockDigits(rule, range, digits, From(s, Len(rule.separator)))
       ELSE (IF ~is_digit(c, digits.radix)
               THEN <<Diag("unexpected_digit", cur, cur + Len(c), "radix")>>
               ELSE <<>>)
            \o BlockDigits(rule, range, digits, From(s, Len(c)))

RECURSIVE BlocksDiags(_, _, _, _, _, _)
BlocksDiags(rule, t, range, chunk, digits, i) ==
  IF i > Len(chunk.blocks) THEN <<>>
  ELSE (IF SpLen(range) = 0 /\ HasPrefix(chunk)
          THEN <<Diag("expected", range.lo, range.hi, "digits_after_prefix")>>
          ELSE <<>>)
       \o BlockDigits(rule, range, digits, TextOf(t, chunk.blocks[i]))
       \o BlocksDiags(rule, t, range, chunk, digits, i + 1)

\* The checks made once the blocks are known, chunk by chunk: the number of
\* blocks, then the digits of every block.
RECURSIVE ChunksDiags(_, _, _, _, _)
ChunksDiags(rule, t, range, chunks, i) ==
  IF i > Len(chunks) THEN <<>>
  ELSE
    LET chunk == chunks[i]
        digits == IF chunk.which_exp >= 0 /\ chunk.which_exp < Len(rule.exps)
                    THEN rule.exps[chunk.which_exp + 1][2] ELSE rule.mant
        cs == ChunkSpan(chunk)
    IN (IF Len(chunk.blocks) < digits.min_chunks
          THEN <<Diag("expected_points", cs.lo, cs.hi, "min_chunks")>> ELSE <<>>)
       \o BlocksDiags(rule, t, range, chunk, digits, 1)
       \o ChunksDiags(rule, t, range, chunks, i + 1)

\* The sign of the mantissa: the declared sign whose text is the sign span's.
\* A sign span that is no declared sign reaches bug!: value is "".
MantSign(t, rule, sp) ==
  LET same == {h \in 1..Len(rule.mant.signs) :
                 rule.mant.signs[h].text = TextOf(t, sp)}
  IN IF TextOf(t, sp) = <<>> THEN NoSign
     ELSE [set |-> TRUE,
           value |-> IF same = {} THEN "" ELSE rule.mant.signs[Min(same)].value,
           lo |-> sp.lo, hi |-> sp.hi]

\* What the Any::Digital arm does once the 'digits loop has ended in D: the
\* separator before the suffix, the last block, the three tokens and the
\* checks of the chunks.
DigitalTokens(L, t, rule, lexeme, aff, D) ==
  LET range == aff.range
      sufDiag == IF D.last_was_sep /\ ~rule.corner_cases.suffix
                   THEN <<Diag("unexpected_separator",
                               range.lo + D.offset - Len(rule.separator),
                               range.hi, "suffix")>>
                   ELSE <<>>
      chunks == PushBlock(D.chunks, Sp(range.lo + D.block_start, range.hi))
  IN [add_token(
        add_token(
          add_token(L, PREFIX, SpLen(aff.prefix), NoMeta),
          lexeme, SpLen(aff.sign) + SpLen(range),
          [kind |-> "Digital", digits |-> chunks[1], exponents |-> Tail(chunks)]),
        SUFFIX, SpLen(aff.suffix), NoMeta)
      EXCEPT !.diags = @ \o D.diags \o sufDiag
                         \o ChunksDiags(rule, t, range, chunks, 1),
             !.panic = @ \/ (D.chunks[1].sign.set /\ D.chunks[1].sign.value = "")]

\* The Any::Digital arm.  aff is the split of the match into sign, prefix,
\* digits and suffix.
EmitDigital(L, t, rule, lexeme, aff) ==
  DigitalTokens(L, t, rule, lexeme, aff,
    DigitLoop(rule, aff.range,
      [chunks |-> <<DigitBlocks(IF SpLen(aff.prefix) # 0 THEN aff.prefix
                                ELSE Sp(0, 0),
                                MantSign(t, rule, aff.sign), 0 - 1)>>,
       offset |-> 0, s |-> TextOf(t, aff.range), is_mant |-> TRUE,
       block_start |-> 0, last_was_sep |-> FALSE, diags |-> <<>>]))

\* ------------------------------------------------ emit: the quoted string
\* Trie::longest_prefix: the escape with the longest key that s starts
\* with; `hit` is FALSE when no key is a prefix of s.
LongestEscape(escapes, s) ==
  LET fit == {e \in escapes : StartsWith(s, e.key)}
  IN IF fit = {} THEN [hit |-> FALSE, key |-> <<>>, esc |-> Invalid]
     ELSE LET e == CHOOSE x \in fit : \A y \in fit : Len(y.key) <= Len(x.key)
          IN [hit |-> TRUE, key |-> e.key, esc |-> e.esc]

\* The loop of Escape::Fixed: up to `left` more characters, stopping at the
\* closer or at the end of the file.
RECURSIVE FixedScanThroughCloser(_, _, _, _, _)
FixedScanThroughCloser(t, close, cur, left, count) ==
  LET rest == From(t, cur)
  IN IF left = 0 \/ rest = <<>>
       THEN [cursor |-> cur, count |-> count]
     ELSE FixedScanThroughCloser(t, close, cur + Len(FirstChar(rest)),
                                 left - 1, count + 1)

RECURSIVE FixedScan(_, _, _, _, _)
FixedScan(t, close, cur, left, count) ==
  LET rest == From(t, cur)
  IN IF left = 0 \/ StartsWith(rest, close) \/ rest = <<>>
       THEN [cursor |-> cur, count |-> count]
     ELSE FixedScan(t, close, cur + Len(FirstChar(rest)), left - 1, count + 1)

\* The argument of an escape whose key ends at `cur`: the three marks
\* [start of argument, end of argument, end of escape], the cursor after it
\* and what was reported.
EscapeArg(t, close, esc, esc_start, cur) ==
  CASE esc.kind = "Invalid" ->
         [mark |-> <<cur, cur, cur>>, cursor |-> cur,
          diags |-> <<Diag("invalid_escape", esc_start, cur, "invalid")>>]
    [] esc.kind = "Basic" ->
         [mark |-> <<cur, cur, cur>>, cursor |-> cur, diags |-> <<>>]
    [] esc.kind = "Fixed" ->
         LET f == FixedScan(t, close, cur, esc.chars, 0)
         IN [mark |-> <<cur, f.cursor, f.cursor>>, cursor |-> f.cursor,
             diags |-> IF f.count # esc.chars
                         THEN <<Diag("invalid_escape", esc_start, f.cursor, "fixed")>>
                         ELSE <<>>]
    [] esc.kind = "Bracketed" ->
         IF ~StartsWith(From(t, cur), esc.open)
           THEN [mark |-> <<cur, cur, cur>>, cursor |-> cur,
                 diags |-> <<Diag("invalid_escape", esc_start, cur, "no_open")>>]
         ELSE
           LET arg_start == cur + Len(esc.open)
               len == Find(Slice(t, 0, arg_start), esc.close)
           IN IF len < 0
                THEN [mark |-> <<arg_start, arg_start, arg_start>>,
                      cursor |-> arg_start,
                      diags |-> <<Diag("invalid_escape", esc_start, arg_start,
                                       "no_close")>>]
              ELSE [mark |-> <<arg_start, arg_start + len,
                               arg_start + len + Len(esc.close)>>,
                    cursor |-> arg_start + len + Len(esc.close),
                    diags |-> <<>>]

\* The scan of the quoted arm.  Q holds cursor, chunk_start, marks, the
\* diagnostics reported, closed (uq_end is Some), panic and hang.  An
\* iteration that takes an escape and leaves the cursor where it was is
\* followed by the same iteration, for ever: hang.
RECURSIVE QuotedScan(_, _, _, _)
QuotedScan(t, close, escapes, Q) ==
  IF ~CanSlice(t, Q.cursor, Len(t)) THEN [Q EXCEPT !.panic = TRUE]
  ELSE
    LET rest == From(t, Q.cursor)
        e == LongestEscape(escapes, rest)
    IN IF StartsWith(rest, close) THEN
         [Q EXCEPT !.cursor = @ + Len(close),
                   !.marks = IF Q.cursor > Q.chunk_start
                               THEN Append(@, Q.cursor) ELSE @,
                   !.closed = TRUE]
       ELSE IF ~e.hit THEN
         (IF rest = <<>> THEN Q
          ELSE QuotedScan(t, close, escapes,
                          [Q EXCEPT !.cursor = @ + Len(FirstChar(rest))]))
       ELSE
         LET esc_end == Q.cursor + Len(e.key)
             a == EscapeArg(t, close, e.esc, Q.cursor, esc_end)
         IN IF a.cursor = Q.cursor
              THEN [Q EXCEPT !.marks = @ \o <<Q.cursor, esc_end>> \o a.mark,
                             !.chunk_start = a.cursor,
                             !.diags = @ \o a.diags,
                             !.hang = TRUE]
            ELSE QuotedScan(t, close, escapes,
                   [Q EXCEPT !.marks = @ \o <<Q.cursor, esc_end>> \o a.mark,
                             !.cursor = a.cursor,
                             !.chunk_start = a.cursor,
                             !.diags = @ \o a.diags])

\* A variant of the end of the quoted arm that says nothing of a string
\* whose closer was not found.
QuotedTokensSilent(L, t, rule, lexeme, span, aff, Q) ==
  LET lens == FittingLens(rule.affixes.suffixes,
                          LAMBDA y : StartsWith(From(t, Q.cursor), y))
      found == Q.diags
                 \o (IF lens # {} THEN <<>>
                     ELSE <<Diag("expected", Q.cursor, Q.cursor, "suffix")>>)
  IN IF Q.panic \/ Q.hang
       THEN [L EXCEPT !.diags = @ \o Q.diags, !.panic = TRUE, !.hang = Q.hang]
     ELSE add_token(
            add_token(
              add_token([L EXCEPT !.diags = @ \o found],
                        PREFIX, SpLen(aff.prefix), NoMeta),
              lexeme, Q.cursor - (L.cursor + SpLen(aff.prefix)),
              [kind |-> "Quoted", marks |-> Q.marks]),
            SUFFIX, MaxOrZero(lens), NoMeta)

\* What the Any::Quoted arm does once the scan has ended in Q: the unclosed
\* string, the suffix, which it reads itself, and the three tokens.
QuotedTokens(L, t, rule, lexeme, span, aff, Q) ==
  LET lens == FittingLens(rule.affixes.suffixes,
                          LAMBDA y : StartsWith(From(t, Q.cursor), y))
      found == Q.diags
                 \o (IF Q.closed THEN <<>>
                     ELSE <<Diag("unclosed", span.lo, span.hi, "quoted")>>)
                 \o (IF lens # {} THEN <<>>
                     ELSE <<Diag("expected", Q.cursor, Q.cursor, "suffix")>>)
  IN IF Q.panic \/ Q.hang
       THEN [L EXCEPT !.diags = @ \o Q.diags, !.panic = TRUE, !.hang = Q.hang]
     ELSE add_token(
            add_token(
              add_token([L EXCEPT !.diags = @ \o found],
                        PREFIX, SpLen(aff.prefix), NoMeta),
              lexeme, Q.cursor - (L.cursor + SpLen(aff.prefix)),
              [kind |-> "Quoted", marks |-> Q.marks]),
            SUFFIX, MaxOrZero(lens), NoMeta)

\* The Any::Quoted arm.
EmitQuoted(L, t, rule, lexeme, span, end, aff, close) ==
  QuotedTokens(L, t, rule, lexeme, span, aff,
    QuotedScan(t, close, rule.escapes,
               [cursor |-> end, chunk_start |-> end, marks |-> <<end>>,
                diags |-> <<>>, closed |-> FALSE, panic |-> FALSE,
                hang |-> FALSE]))

\* The Any::Ident arm.
EmitIdentWhole(L, t, rule, lexeme, span, aff) ==
  add_token(
    add_token(
      add_token(L, PREFIX, SpLen(aff.prefix), NoMeta),
      lexeme, SpLen(span) - SpLen(aff.prefix), NoMeta),
    SUFFIX, 0, NoMeta)

EmitIdent(L, t, rule, lexeme, span, aff) ==
  LET small == IF CharCount(TextOf(t, aff.range)) < rule.min_len
                 THEN <<Diag("ident_too_small", span.lo, span.hi, "ident")>>
                 ELSE <<>>
      non_ascii == IF rule.ascii_only /\ ~AllAsciiOrListed(rule, TextOf(t, aff.range))
                     THEN <<Diag("non_ascii_in_ident", aff.range.lo,
                                 aff.range.hi, "ident")>>
                     ELSE <<>>
  IN add_token(
       add_token(
         add_token([L EXCEPT !.diags = @ \o small \o non_ascii],
                   PREFIX, SpLen(aff.prefix), NoMeta),
         lexeme, SpLen(aff.range), NoMeta),
       SUFFIX, SpLen(aff.suffix), NoMeta)

\* A bracket arm that adds the opener without pushing its closer.
EmitBracketNoPush(L, lexeme, range, close) ==
  add_token(L, lexeme, SpLen(range), Offset(0, 0))

\* The Any::Bracket arm: push the closer the opener expects, add the opener.
EmitBracket(L, lexeme, range, close) ==
  add_token(push_closer(L, lexeme, close), lexeme, SpLen(range), Offset(0, 0))

\* The Any::LineEnd arms: a newline is a token; the cancel is whitespace and
\* sets the latch.
EmitLineEnd(L, t, lexeme, range) ==
  IF TextOf(t, range) = <<"\n">>
    THEN add_token(L, lexeme, SpLen(range), NoMeta)
  ELSE [add_token(L, WHITESPACE, SpLen(range), NoMeta)
          EXCEPT !.line_end_cancel = SomeSpan(range)]

\* A variant of the closer branch that also drops the innermost open
\* bracket, as if the closer had closed it.
EmitUnopenedPops(L, span, end) ==
  [add_token(report(L, Diag("unopened", span.lo, span.hi, "emit")),
             UNEXPECTED, end - span.lo, NoMeta)
     EXCEPT !.closers = IF @ = <<>> THEN @ ELSE SubSeq(@, 1, Len(@) - 1)]

\* The branch of emit taken for a closer: it was not popped by the driver,
\* so nothing had opened it.
EmitUnopened(L, span, end) ==
  add_token(report(L, Diag("unopened", span.lo, span.hi, "emit")),
            UNEXPECTED, end - span.lo, NoMeta)

\* A variant that reports the cancel and leaves the latch set.
TakeCancelKeeps(L, rule) ==
  IF rule.kind # "Comment" /\ L.line_end_cancel.set
    THEN report(L, Diag("unexpected", L.line_end_cancel.lo,
                        L.line_end_cancel.hi, "cancel"))
  ELSE L

\* A token that is not a comment takes the cancel latch and reports the
\* cancel it belonged to.
TakeCancel(L, rule) ==
  IF rule.kind # "Comment" /\ L.line_end_cancel.set
    THEN [report(L, Diag("unexpected", L.line_end_cancel.lo,
                         L.line_end_cancel.hi, "cancel"))
            EXCEPT !.line_end_cancel = NoSpan]
  ELSE L

\* The overparse diagnostic: the extra bytes the automaton read past the
\* match.
Overparse(L, m, start) ==
  IF m.extra > 0
    THEN report(L, Diag("extra_chars", start + m.len, start + m.len + m.extra,
                        "overparse"))
  ELSE L

\* The length of the run of XID characters at the start of s.
RECURSIVE XidRun(_)
XidRun(s) ==
  IF s = <<>> \/ ~is_xid(FirstChar(s)) THEN 0
  ELSE Len(FirstChar(s)) + XidRun(From(s, Len(FirstChar(s))))

\* A variant that skips one XID character only.
TrailingXidOne(L, t) ==
  LET prev == LastChar(Slice(t, 0, L.cursor))
      next == FirstChar(From(t, L.cursor))
  IN IF prev # <<>> /\ is_xid(prev) /\ next # <<>> /\ is_xid(next)
       THEN report(add_token(L, UNEXPECTED, Len(next), NoMeta),
                   Diag("extra_chars", L.cursor, L.cursor + Len(next), "xid"))
     ELSE L

\* The XID characters that follow a token ending in an XID character are
\* skipped as one UNEXPECTED token and reported.
TrailingXid(L, t) ==
  LET prev == LastChar(Slice(t, 0, L.cursor))
      xids == XidRun(From(t, L.cursor))
  IN IF prev # <<>> /\ is_xid(prev) /\ xids > 0
       THEN report(add_token(L, UNEXPECTED, xids, NoMeta),
                   Diag("extra_chars", L.cursor, L.cursor + xids, "xid"))
     ELSE L

\* A match arm whose keyword takes the extra bytes of the match with it.
EmitRuleTakesExtra(L, t, rule, lexeme, span, end, aff, close) ==
  CASE rule.kind = "Keyword" -> add_token(L, lexeme, end - span.lo, NoMeta)
    [] rule.kind = "LineEnd" -> EmitLineEnd(L, t, lexeme, aff.range)
    [] rule.kind = "Bracket" -> EmitBracket(L, lexeme, aff.range, close)
    [] rule.kind = "Comment" ->
         EmitComment(L, t, rule, lexeme, span, end, TextOf(t, aff.range), close)
    [] rule.kind = "Ident" -> EmitIdent(L, t, rule, lexeme, span, aff)
    [] rule.kind = "Digital" -> EmitDigital(L, t, rule, lexeme, aff)
    [] rule.kind = "Quoted" ->
         EmitQuoted(L, t, rule, lexeme, span, end, aff, close)

\* The match arm of emit for an opener or a token without brackets.
EmitRule(L, t, rule, lexeme, span, end, aff, close) ==
  CASE rule.kind = "Keyword" -> add_token(L, lexeme, SpLen(aff.range), NoMeta)
    [] rule.kind = "LineEnd" -> EmitLineEnd(L, t, lexeme, aff.range)
    [] rule.kind = "Bracket" -> EmitBracket(L, lexeme, aff.range, close)
    [] rule.kind = "Comment" ->
         EmitComment(L, t, rule, lexeme, span, end, TextOf(t, aff.range), close)
    [] rule.kind = "Ident" -> EmitIdent(L, t, rule, lexeme, span, aff)
    [] rule.kind = "Digital" -> EmitDigital(L, t, rule, lexeme, aff)
    [] rule.kind = "Quoted" ->
         EmitQuoted(L, t, rule, lexeme, span, end, aff, close)

\* emit once the mirrored bracket is known: a closer is reported as
\* unopened, anything else takes the cancel latch and is emitted by its rule.
EmitArm(L, t, m, best, rule, aff, mirrored) ==
  IF best.is_close THEN
    (IF mirrored.set
       THEN EmitUnopened(L, Sp(L.cursor, L.cursor + m.len),
                         L.cursor + m.len + m.extra)
     ELSE [L EXCEPT !.panic = TRUE])
  ELSE EmitRule(TakeCancel(L, rule), t, rule, best.lexeme,
                Sp(L.cursor, L.cursor + m.len), L.cursor + m.len + m.extra,
                aff, mirrored.text)

\* The end of emit: the two error conditions checked once the token is in
\* the stream.  `arm` is the lexer as the match arm left it.
EmitTail(t, m, start, arm) ==
  IF arm.panic THEN arm ELSE TrailingXid(Overparse(arm, m, start), t)

\* emit once the best candidate is split by its affixes: a split that
\* reached bug!, or the mirror of a CxxLike bracket reaching it on the name,
\* is a panic.
EmitSplit(L, t, m, best, rule, aff) ==
  IF aff.bug \/ CxxBug(t, aff.range, rule, best.is_close)
    THEN [L EXCEPT !.panic = TRUE]
  ELSE EmitTail(t, m, L.cursor,
    EmitArm([L EXCEPT !.diags = @ \o MirrorDiags(t, aff.range, rule, best.is_close)],
            t, m, best, rule, aff,
            Mirrored(t, aff.range, rule, best.is_close)))

\* emit once the candidates are sorted; g is the place of the first valid
\* one.
EmitSorted(L, r, t, m, span, sorted, g) ==
  IF AffixBug(r, t, span, sorted, g) THEN [L EXCEPT !.panic = TRUE]
  ELSE EmitSplit(L, t, m, BestAt(sorted, g), Rule(r, BestAt(sorted, g).lexeme),
                 find_affixes_partial(t, span, Rule(r, BestAt(sorted, g).lexeme),
                                      BestAt(sorted, g).is_close))

\* emit once the automaton has been searched: nothing is done without a
\* match.
EmitMatch(L, r, t, m) ==
  IF m = NoMatch THEN L
  ELSE EmitSorted(L, r, t, m, Sp(L.cursor, L.cursor + m.len),
                  SortCandidates(m.candidates),
                  FirstValid(r, t, Sp(L.cursor, L.cursor + m.len),
                             SortCandidates(m.candidates)))

\* emit2::emit
Emit(L, r, t) == EmitMatch(L, r, t, Search(r, t, L.cursor))

\* ------------------------------------------------------- the driver: lex
NoStart == [set |-> FALSE, start |-> 0]
NoLast == [set |-> FALSE]

\* A loop that takes the last byte of the file for its end.
AtEofEarly(t, cur) == cur + 1 >= Len(t)

\* lexer.text(lexer.cursor()..).chars().next() is None: the loop breaks.
AtEof(t, cur) == FirstChar(From(t, cur)) = <<>>

\* diagnose_unexpected: report the pending run of unexpected characters,
\* which ends at `end`, and forget it.
DiagnoseUnexpected(ds, end) ==
  IF unexpected.set
    THEN Append(ds, Diag("unexpected_token", unexpected.start, end, "lex"))
  ELSE ds

\* The threads that share the context.
Threads == {"t1", "t2", "t3"}

\* No thread has started, and nothing holds the lock.
LockIdle ==
  /\ policy = "writers_first"
  /\ rwlock = [readers |-> 0, writer |-> FALSE]
  /\ th = [t \in Threads |-> [pc |-> "idle", left |-> 0, looks |-> 0]]

\* No yarn has been built, and no formatting is under way.
YarnIdle ==
  /\ yarn = [op |-> "none"]
  /\ buf = [kind |-> "none"]
  /\ written = <<>>

CtxIdle ==
  /\ files = <<>> /\ ranges = <<>> /\ synthetics = <<>>
  /\ comments = <<>> /\ spans = <<>> /\ log = <<>> /\ pending = {}
  /\ outcome = [op |-> "none"] /\ ops = 0

\* No rule is being built: the affixes are Affixes::default().
BuildIdle == built = DefaultAffixes /\ calls = <<>>

Init ==
  /\ rs \in RuleSetIds
  /\ text \in Texts(rs)
  /\ pc = "skip"
  /\ cursor = 0
  /\ tokens = <<>>
  /\ closers = <<>>
  /\ line_end_cancel = NoSpan
  /\ unexpected = NoStart
  /\ diags = <<>>
  /\ last = NoLast
  /\ CtxIdle
  /\ BuildIdle
  /\ LockIdle
  /\ YarnIdle

SetLexer(L) ==
  /\ cursor' = L.cursor
  /\ tokens' = L.tokens
  /\ closers' = L.closers
  /\ line_end_cancel' = L.line_end_cancel

\* Top of the loop: skip whitespace; a skipped run ends the pending
\* unexpected run.  Then break at the end of the file.
SkipWhitespace ==
  /\ pc = "skip"
  /\ LET L == skip_whitespace(Lexer, rs, text)
         skipped == L.cursor > cursor
     IN /\ SetLexer(L)
        /\ diags' = IF skipped THEN DiagnoseUnexpected(L.diags, cursor) ELSE L.diags
        /\ unexpected' = IF skipped THEN NoStart ELSE unexpected
        /\ pc' = IF AtEof(text, L.cursor) THEN "finish" ELSE "pop"
  /\ UNCHANGED <<rs, text, last>>
  /\ UNCHANGED ctxvars
  /\ UNCHANGED bldvars
  /\ UNCHANGED sidevars

\* lexer.pop_closer(), and `continue` when it moved the cursor.
PopCloser ==
  /\ pc = "pop"
  /\ LET L == pop_closer(Lexer, text)
         moved == L.cursor > cursor
     IN /\ SetLexer(L)
        /\ diags' = IF moved THEN DiagnoseUnexpected(L.diags, cursor) ELSE L.diags
        /\ unexpected' = IF moved THEN NoStart ELSE unexpected
        /\ pc' = IF moved THEN "skip" ELSE "emit"
  /\ UNCHANGED <<rs, text, last>>
  /\ UNCHANGED ctxvars
  /\ UNCHANGED bldvars
  /\ UNCHANGED sidevars

\* What the latest emit call worked on and what it did: the match m, the
\* chosen candidate and the lexer L it left.
LastMatch(m, best, L) ==
  [set |-> TRUE, start |-> cursor, len |-> m.len, extra |-> m.extra,
   candidates |-> m.candidates, best |-> best,
   kind |-> Rule(rs, best.lexeme).kind,
   tokens_before |-> Len(tokens), diags_before |-> Len(diags),
   closers_before |-> closers, after |-> L.cursor,
   xids |-> IF Len(L.diags) > Len(diags) /\ L.diags[Len(L.diags)].site = "xid"
              THEN L.diags[Len(L.diags)].hi - L.diags[Len(L.diags)].lo ELSE 0,
   verified |-> FirstValid(rs, text, Sp(cursor, cursor + m.len),
                           SortCandidates(m.candidates)) # 0,
   affixes |-> find_affixes_partial(text, Sp(cursor, cursor + m.len),
                                    Rule(rs, best.lexeme), best.is_close),
   panic |-> L.panic]

\* A driver that goes on to the next iteration after emit whether the
\* cursor moved or not.
EmitReturnContinues(L, m) ==
  /\ SetLexer(L)
  /\ diags' = IF L.cursor > cursor /\ ~L.panic
                THEN DiagnoseUnexpected(L.diags, cursor) ELSE L.diags
  /\ unexpected' = IF L.cursor > cursor /\ ~L.panic THEN NoStart ELSE unexpected
  /\ pc' = IF L.hang THEN "hang" ELSE IF L.panic THEN "panic" ELSE "skip"
  /\ last' = IF m = NoMatch THEN NoLast
             ELSE LastMatch(m, Best(rs, text, Sp(cursor, cursor + m.len),
                                    m.candidates), L)

\* The driver after emit returned the lexer L, having searched the match m.
EmitReturn(L, m) ==
  /\ SetLexer(L)
  /\ diags' = IF L.cursor > cursor /\ ~L.panic
                THEN DiagnoseUnexpected(L.diags, cursor) ELSE L.diags
  /\ unexpected' = IF L.cursor > cursor /\ ~L.panic THEN NoStart ELSE unexpected
  /\ pc' = IF L.hang THEN "hang"
           ELSE IF L.panic THEN "panic"
           ELSE IF L.cursor > cursor THEN "skip" ELSE "unexpected"
  /\ last' = IF m = NoMatch THEN NoLast
             ELSE LastMatch(m, Best(rs, text, Sp(cursor, cursor + m.len),
                                    m.candidates), L)

\* emit2::emit(&mut lexer), and `continue` when it moved the cursor.
EmitStep ==
  /\ pc = "emit"
  /\ EmitReturn(Emit(Lexer, rs, text), Search(rs, text, cursor))
  /\ UNCHANGED <<rs, text>>
  /\ UNCHANGED ctxvars
  /\ UNCHANGED bldvars
  /\ UNCHANGED sidevars

\* Nothing matched: the next character is an UNEXPECTED token, and starts
\* an unexpected run unless one is pending.
UnexpectedStep ==
  /\ pc = "unexpected"
  /\ LET next == FirstChar(From(text, cursor))
     IN SetLexer(add_token(Lexer, UNEXPECTED, Len(next), NoMeta))
  /\ unexpected' = IF ~unexpected.set THEN [set |-> TRUE, start |-> cursor]
                   ELSE unexpected
  /\ pc' = "skip"
  /\ UNCHANGED <<rs, text, diags, last>>
  /\ UNCHANGED ctxvars
  /\ UNCHANGED bldvars
  /\ UNCHANGED sidevars

\* After the loop: report.fatal_or(lexer.finish()).
Finish ==
  /\ pc = "finish"
  /\ LET L == finish(Lexer)
     IN SetLexer(L) /\ diags' = L.diags
  /\ pc' = "done"
  /\ UNCHANGED <<rs, text, unexpected, last>>
  /\ UNCHANGED ctxvars
  /\ UNCHANGED bldvars
  /\ UNCHANGED sidevars

Next == SkipWhitespace \/ PopCloser \/ EmitStep \/ UnexpectedStep \/ Finish

Spec == Init /\ [][Next]_vars

\* Weak fairness of emit, written out: emit can be taken exactly when the
\* driver is at it, and taking it moves the driver on.
EmitFair == []<>(pc # "emit") \/ []<><<EmitStep>>_vars

\* lex runs on: a step of the driver that can be taken is taken.
SpecFair ==
  /\ Spec
  /\ WF_vars(SkipWhitespace)
  /\ WF_vars(PopCloser)
  /\ EmitFair
  /\ WF_vars(UnexpectedStep)
  /\ WF_vars(Finish)

\* ---------------------------------------------------------- source context
\* The context as a value, for the operators that read and extend it.
Ctx ==
  [files |-> files, ranges |-> ranges, synthetics |-> synthetics,
   comments |-> comments]

\* The texts files are made of, and the text of the synthetic spans.
CtxTexts == {<<"a", "b">>, <<"c">>}
SynTexts == {<<"c", "a">>}

\* Span { start, end }
Span(start, end) == [start |-> start, end |-> end]
NoneSpan == [some |-> FALSE, span |-> Span(0 - 1, 0 - 1)]

\* A test that takes the real span of ID 0 for synthetic.
is_synthetic_or_zero(s) == s.start <= 0

\* Span::is_synthetic
is_synthetic(s) == s.start < 0

\* An end that is the start of the span again.
SpanEndIsStart(s) ==
  IF s.end < 0 THEN NoneSpan
  ELSE [some |-> TRUE, span |-> Span(s.start, 0 - 1)]

\* Span::end: the end of a fused span as an atomic span, None for an atomic
\* span.
SpanEnd(s) ==
  IF s.end < 0 THEN NoneSpan
  ELSE [some |-> TRUE, span |-> Span(s.end, 0 - 1)]

\* An index that negates the start of a synthetic span without
\* complementing it.
SpanIndexNegated(s) == IF ~is_synthetic(s) THEN s.start ELSE 0 - s.start

\* Span::index: the ID of a real span is its start, of a synthetic span the
\* bitwise complement of its start.
SpanIndex(s) == IF ~is_synthetic(s) THEN s.start ELSE 0 - s.start - 1

NoRange == [some |-> FALSE, file |-> 0, lo |-> 0, hi |-> 0]

\* The real range stored under the ID i.  An ID the context has not minted
\* has none.
RangeAt(C, i) ==
  IF i + 1 \in DOMAIN C.ranges
    THEN [some |-> TRUE, file |-> C.ranges[i + 1].file,
          lo |-> C.ranges[i + 1].lo, hi |-> C.ranges[i + 1].hi]
  ELSE NoRange

\* The range of a fused span: from the least start to the greatest end of
\* its two halves.
Join(a, b) ==
  [some |-> a.some /\ b.some, file |-> a.file,
   lo |-> IF a.lo <= b.lo THEN a.lo ELSE b.lo,
   hi |-> IF a.hi >= b.hi THEN a.hi ELSE b.hi]

\* Context::lookup_range: None for a synthetic span, else the byte range
\* and the file.
lookup_range(C, s) ==
  IF is_synthetic(s) THEN NoRange
  ELSE IF SpanEnd(s).some
    THEN Join(RangeAt(C, SpanIndex(s)), RangeAt(C, SpanIndex(SpanEnd(s).span)))
  ELSE RangeAt(C, SpanIndex(s))

\* Context::lookup_file: the text of the file, with its sentinel byte.
lookup_file(C, f) == IF f + 1 \in DOMAIN C.files THEN C.files[f + 1] ELSE <<>>

\* Context::lookup_synthetic
lookup_synthetic(C, s) ==
  IF SpanIndex(s) + 1 \in DOMAIN C.synthetics
    THEN C.synthetics[SpanIndex(s) + 1]
  ELSE <<>>

\* Context::lookup_comments
lookup_comments(C, s) == IF s \in DOMAIN C.comments THEN C.comments[s] ELSE <<>>

\* Span::range
SpanRange(s, C) ==
  [some |-> lookup_range(C, s).some, lo |-> lookup_range(C, s).lo,
   hi |-> lookup_range(C, s).hi]

\* The slice of a file's text a range names.
RangeText(C, r) == Slice(lookup_file(C, r.file), r.lo, r.hi)

\* Span::text
SpanText(s, C) ==
  IF lookup_range(C, s).some THEN RangeText(C, lookup_range(C, s))
  ELSE lookup_synthetic(C, s)

\* Span::comments
SpanComments(s, C) == lookup_comments(C, s)

\* Context::new_file: the file gets the next index; its text gets the
\* sentinel byte.
new_file(C, t) ==
  [ctx |-> [C EXCEPT !.files = Append(@, t \o <<" ">>)], file |-> Len(C.files)]

\* Context::new_span: the range gets the next ID; the span is atomic.
new_span(C, f, lo, hi) ==
  [ctx |-> [C EXCEPT !.ranges = Append(@, [file |-> f, lo |-> lo, hi |-> hi])],
   span |-> Span(Len(C.ranges), 0 - 1)]

\* Context::new_synthetic_span: the text gets the next ID; the span's start
\* is its complement.
new_synthetic(C, t) ==
  [ctx |-> [C EXCEPT !.synthetics = Append(@, t)],
   span |-> Span(0 - Len(C.synthetics) - 1, 0 - 1)]

\* Fusing two atomic real spans: an error when they are in different files.
fuse(C, a, b) ==
  IF lookup_range(C, a).file # lookup_range(C, b).file
    THEN [ok |-> FALSE, span |-> NoneSpan.span]
  ELSE [ok |-> TRUE, span |-> Span(SpanIndex(a), SpanIndex(b))]

\* Context::add_comment: the comment is appended to the host's chain.
add_comment(C, host, comment) ==
  [C EXCEPT !.comments =
     [s \in (DOMAIN @) \cup {host} |->
        (IF s \in DOMAIN @ THEN @[s] ELSE <<>>)
          \o (IF s = host THEN <<comment>> ELSE <<>>)]]

\* An append that takes the comment for the host.
append_comment_span_swapped(s, C, comment) == add_comment(C, comment, s)

\* Span::append_comment_span
append_comment_span(s, C, comment) == add_comment(C, s, comment)

\* --------------------------------------------- the context's operations
\* A span as it is handed out: what it shows in the context C it was minted
\* in, and the number of the operation that minted it.
Minted(s, C) ==
  [span |-> s, range |-> lookup_range(C, s), text |-> SpanText(s, C),
   at |-> ops + 1]

\* The spans handed out so far, and the atomic real ones among them.
AllSpans == {spans[i].span : i \in 1..Len(spans)}
AtomicSpans == {s \in AllSpans : ~is_synthetic(s) /\ ~SpanEnd(s).some}

Outcome(op, ok, a, b, span) ==
  [op |-> op, ok |-> ok, a |-> a, b |-> b, span |-> span,
   spans_before |-> Len(spans), ranges_before |-> Len(ranges)]

LexIdle ==
  /\ rs = 1 /\ text = <<>> /\ pc = "idle" /\ cursor = 0 /\ tokens = <<>>
  /\ closers = <<>> /\ line_end_cancel = NoSpan /\ unexpected = NoStart
  /\ diags = <<>> /\ last = NoLast

InitCtx == LexIdle /\ CtxIdle /\ BuildIdle /\ LockIdle /\ YarnIdle

SetCtx(C) ==
  /\ files' = C.files
  /\ ranges' = C.ranges
  /\ synthetics' = C.synthetics
  /\ comments' = C.comments

\* An operation that mints the span res.span in the context res.ctx.
Mint(op, res) ==
  /\ SetCtx(res.ctx)
  /\ spans' = Append(spans, Minted(res.span, res.ctx))
  /\ outcome' = Outcome(op, TRUE, res.span, res.span, res.span)

NewFile ==
  /\ ops < MaxOps
  /\ \E t \in CtxTexts :
       /\ SetCtx(new_file(Ctx, t).ctx)
       /\ outcome' = Outcome("new_file", TRUE, NoneSpan.span, NoneSpan.span,
                             NoneSpan.span)
  /\ ops' = ops + 1
  /\ UNCHANGED <<spans, log, pending>>
  /\ UNCHANGED lexvars
  /\ UNCHANGED bldvars
  /\ UNCHANGED sidevars

NewSpan ==
  /\ ops < MaxOps
  /\ \E f \in 0..(Len(files) - 1) :
       \E lo, hi \in 0..(Len(files[f + 1]) - 1) :
         /\ lo < hi
         /\ Mint("new_span", new_span(Ctx, f, lo, hi))
  /\ ops' = ops + 1
  /\ UNCHANGED <<log, pending>>
  /\ UNCHANGED lexvars
  /\ UNCHANGED bldvars
  /\ UNCHANGED sidevars

NewSynthetic ==
  /\ ops < MaxOps
  /\ \E t \in SynTexts : Mint("new_synthetic", new_synthetic(Ctx, t))
  /\ ops' = ops + 1
  /\ UNCHANGED <<log, pending>>
  /\ UNCHANGED lexvars
  /\ UNCHANGED bldvars
  /\ UNCHANGED sidevars

\* fuse(a, b) returned res.
Fused(a, b, res) ==
  /\ spans' = IF res.ok THEN Append(spans, Minted(res.span, Ctx)) ELSE spans
  /\ outcome' = Outcome("fuse", res.ok, a, b, res.span)

Fuse ==
  /\ ops < MaxOps
  /\ \E a, b \in AtomicSpans : Fused(a, b, fuse(Ctx, a, b))
  /\ ops' = ops + 1
  /\ UNCHANGED <<files, ranges, synthetics, comments, log, pending>>
  /\ UNCHANGED lexvars
  /\ UNCHANGED bldvars
  /\ UNCHANGED sidevars

AppendCommentSpan ==
  /\ ops < MaxOps
  /\ \E host, c \in AllSpans :
       /\ SetCtx(append_comment_span(host, Ctx, c))
       /\ log' = Append(log, [host |-> host, comment |-> c])
       /\ outcome' = Outcome("append_comment_span", TRUE, host, c, c)
  /\ ops' = ops + 1
  /\ UNCHANGED <<spans, pending>>
  /\ UNCHANGED lexvars
  /\ UNCHANGED bldvars
  /\ UNCHANGED sidevars

\* Span::append_comment makes two calls on the context, each under the
\* exclusive lock for as long as it lasts, so that the calls of other
\* threads come between them.  The first, new_synthetic_span: the text
\* becomes the synthetic span res.span, which the call keeps to itself
\* until it has attached it.
AppendCommentPending(host, res) ==
  /\ SetCtx(res.ctx)
  /\ pending' = pending \cup {[host |-> host,
                               minted |-> Minted(res.span, res.ctx)]}
  /\ outcome' = Outcome("append_comment_begun", TRUE, host, res.span,
                        res.span)

AppendCommentNewSynthetic ==
  /\ ops < MaxOps
  /\ \E host \in AllSpans : \E t \in SynTexts :
       AppendCommentPending(host, new_synthetic(Ctx, t))
  /\ ops' = ops + 1
  /\ UNCHANGED <<spans, log>>
  /\ UNCHANGED lexvars
  /\ UNCHANGED bldvars
  /\ UNCHANGED sidevars

\* The second, append_comment_span with the span the first returned: from
\* here the span is read through the comments of the host.
AppendCommentAttach ==
  /\ \E p \in pending :
       /\ SetCtx(append_comment_span(p.host, Ctx, p.minted.span))
       /\ spans' = Append(spans, p.minted)
       /\ log' = Append(log, [host |-> p.host, comment |-> p.minted.span])
       /\ pending' = pending \ {p}
       /\ outcome' = Outcome("append_comment", TRUE, p.host, p.minted.span,
                             p.minted.span)
  /\ UNCHANGED ops
  /\ UNCHANGED lexvars
  /\ UNCHANGED bldvars
  /\ UNCHANGED sidevars

NextCtx ==
  \/ NewFile \/ NewSpan \/ NewSynthetic \/ Fuse \/ AppendCommentSpan
  \/ AppendCommentNewSynthetic \/ AppendCommentAttach

SpecCtx == InitCtx /\ [][NextCtx]_vars

\* ------------------------------------------------- building a rule's affixes
\* The affixes passed to the builders, and the lists of them passed to
\* with_prefixes and with_suffixes: of no entry, of one and of two.
AffixTexts == {<<>>, <<"a">>}
AffixLists ==
  {<<>>} \cup {<<x>> : x \in AffixTexts}
         \cup {<<x, y>> : x \in AffixTexts, y \in AffixTexts}

\* A rule with Affixes::default(), before any builder call.
InitAffix == LexIdle /\ CtxIdle /\ BuildIdle /\ LockIdle /\ YarnIdle

Called(side, entries) == calls' = Append(calls, [side |-> side, entries |-> entries])

WithPrefix ==
  /\ Len(calls) < MaxCalls
  /\ \E p \in AffixTexts :
       /\ built' = with_prefix(built, p)
       /\ Called("prefix", <<p>>)
  /\ UNCHANGED <<lexvars, ctxvars>>
  /\ UNCHANGED sidevars

WithSuffix ==
  /\ Len(calls) < MaxCalls
  /\ \E p \in AffixTexts :
       /\ built' = with_suffix(built, p)
       /\ Called("suffix", <<p>>)
  /\ UNCHANGED <<lexvars, ctxvars>>
  /\ UNCHANGED sidevars

WithPrefixes ==
  /\ Len(calls) < MaxCalls
  /\ \E ps \in AffixLists :
       /\ built' = with_prefixes(built, ps)
       /\ Called("prefix", ps)
  /\ UNCHANGED <<lexvars, ctxvars>>
  /\ UNCHANGED sidevars

WithSuffixes ==
  /\ Len(calls) < MaxCalls
  /\ \E ps \in AffixLists :
       /\ built' = with_suffixes(built, ps)
       /\ Called("suffix", ps)
  /\ UNCHANGED <<lexvars, ctxvars>>
  /\ UNCHANGED sidevars

NextAffix == WithPrefix \/ WithSuffix \/ WithPrefixes \/ WithSuffixes

SpecAffix == InitAffix /\ [][NextAffix]_vars

\* ------------------------------------------- threads on the context's lock
\* The lengths of the comment chains the threads iterate.
ChainLens == {0, 1, 2}

\* The lookups Span::text makes for one span: lookup_range, and then
\* lookup_file or lookup_synthetic.
TextLookups == 2

\* RwLock::read returns at once when no thread holds the write guard and,
\* where a waiting writer holds back new readers, no thread waits in write.
\* std::sync::RwLock leaves the choice to the platform.
CanRead ==
  /\ ~rwlock.writer
  /\ policy = "readers_first" \/ \A u \in Threads : th[u].pc # "write_wait"

\* RwLock::write returns when no guard is out.
CanWrite == ~rwlock.writer /\ rwlock.readers = 0

LockRest == UNCHANGED <<lexvars, ctxvars, bldvars, yarnvars, policy>>

\* Span::comments: lookup_comments takes the shared lock, and the guard
\* stays in the Comments value, over a chain of n spans.
SpanCommentsCall(t) ==
  /\ th[t].pc = "idle"
  /\ CanRead
  /\ \E n \in ChainLens :
       th' = [th EXCEPT ![t] = [pc |-> "iter", left |-> n,
                                looks |-> TextLookups]]
  /\ rwlock' = [rwlock EXCEPT !.readers = @ + 1]
  /\ LockRest

\* Comments::as_strings, the next span: Span::text enters a lookup of the
\* context, which takes the shared lock.
TextLookup(t) ==
  /\ th[t].pc = "iter"
  /\ th[t].left > 0
  /\ CanRead
  /\ th' = [th EXCEPT ![t].pc = "look"]
  /\ rwlock' = [rwlock EXCEPT !.readers = @ + 1]
  /\ LockRest

\* The lookup returns and its guard is dropped; after the last lookup of a
\* span the iterator moves to the next span.
TextReturn(t) ==
  /\ th[t].pc = "look"
  /\ th' = [th EXCEPT ![t] =
              IF th[t].looks > 1
                THEN [pc |-> "iter", left |-> th[t].left,
                      looks |-> th[t].looks - 1]
              ELSE [pc |-> "iter", left |-> th[t].left - 1,
                    looks |-> TextLookups]]
  /\ rwlock' = [rwlock EXCEPT !.readers = @ - 1]
  /\ LockRest

\* The iteration is over and the Comments value is dropped, its guard with
\* it.
DropComments(t) ==
  /\ th[t].pc = "iter"
  /\ th[t].left = 0
  /\ th' = [th EXCEPT ![t].pc = "done"]
  /\ rwlock' = [rwlock EXCEPT !.readers = @ - 1]
  /\ LockRest

\* new_file, new_span, new_synthetic_span or add_comment is called and
\* asks for the exclusive lock.
MutatorCall(t) ==
  /\ th[t].pc = "idle"
  /\ th' = [th EXCEPT ![t].pc = "write_wait"]
  /\ UNCHANGED rwlock
  /\ LockRest

\* The mutator gets the exclusive lock.
MutatorLock(t) ==
  /\ th[t].pc = "write_wait"
  /\ CanWrite
  /\ th' = [th EXCEPT ![t].pc = "write"]
  /\ rwlock' = [rwlock EXCEPT !.writer = TRUE]
  /\ LockRest

\* The mutator has appended and returns.
MutatorReturn(t) ==
  /\ th[t].pc = "write"
  /\ th' = [th EXCEPT ![t].pc = "done"]
  /\ rwlock' = [rwlock EXCEPT !.writer = FALSE]
  /\ LockRest

ThreadStep(t) ==
  \/ SpanCommentsCall(t)
  \/ TextLookup(t)
  \/ TextReturn(t)
  \/ DropComments(t)
  \/ MutatorCall(t)
  \/ MutatorLock(t)
  \/ MutatorReturn(t)

InitLock ==
  /\ LexIdle /\ CtxIdle /\ BuildIdle /\ YarnIdle
  /\ policy \in {"readers_first", "writers_first"}
  /\ rwlock = [readers |-> 0, writer |-> FALSE]
  /\ th = [t \in Threads |-> [pc |-> "idle", left |-> 0, looks |-> 0]]

NextLock == \E t \in Threads : ThreadStep(t)

SpecLock == InitLock /\ [][NextLock]_vars

\* Every thread runs on: a step it can take is taken.
SpecLockFair == SpecLock /\ \A t \in Threads : WF_vars(ThreadStep(t))

\* ------------------------------------------------------------------ yarns
\* A byte is a number in 0..255; a word is its bytes, lowest first (the
\* layout of RawYarn puts the length byte of Small on the highest byte of
\* the length word).  Arithmetic on a word is arithmetic on its bits, cut
\* to the width of the word.

\* mem::size_of::<usize>()
WordBytes == 8

RECURSIVE Pow2(_)
Pow2(k) == IF k <= 0 THEN 1 ELSE 2 * Pow2(k - 1)

\* x | y and x & y on bytes, bit by bit.
RECURSIVE ByteOr(_, _)
ByteOr(x, y) ==
  IF x = 0 THEN y
  ELSE IF y = 0 THEN x
  ELSE (IF (x % 2) + (y % 2) > 0 THEN 1 ELSE 0) + 2 * ByteOr(x \div 2, y \div 2)
RECURSIVE ByteAnd(_, _)
ByteAnd(x, y) ==
  IF x = 0 \/ y = 0 THEN 0
  ELSE (x % 2) * (y % 2) + 2 * ByteAnd(x \div 2, y \div 2)

\* The byte at place i of a, zero outside a.
ByteAt(a, i) == IF i \in 1..Len(a) THEN a[i] ELSE 0

\* a << k, a >> k, a | b, a & b and !a at the width of a: a shift by k
\* bits moves whole bytes by k / 8 and bits across bytes by k % 8.
Shl(a, k) ==
  [i \in 1..Len(a) |->
     ((ByteAt(a, i - (k \div 8)) * Pow2(k % 8)) % 256)
       + (ByteAt(a, i - (k \div 8) - 1) \div Pow2(8 - (k % 8)))]
Shr(a, k) ==
  [i \in 1..Len(a) |->
     (ByteAt(a, i + (k \div 8)) \div Pow2(k % 8))
       + ((ByteAt(a, i + (k \div 8) + 1) * Pow2(8 - (k % 8))) % 256)]
BitOr(a, b) == [i \in 1..Len(a) |-> ByteOr(a[i], b[i])]
BitAnd(a, b) == [i \in 1..Len(a) |-> ByteAnd(a[i], b[i])]
BitNot(a) == [i \in 1..Len(a) |-> 255 - a[i]]

\* n as a value of w bytes (`n as uN`), and a value of few bytes widened
\* to w bytes.
RECURSIVE ToBytes(_, _)
ToBytes(n, w) == IF w <= 0 THEN <<>> ELSE <<n % 256>> \o ToBytes(n \div 256, w - 1)
Widen(a, w) == a \o [i \in 1..(w - Len(a)) |-> 0]
Usize(n) == ToBytes(n, WordBytes)

\* The number a word holds, for a word below 2^24.
WordNat(a) == a[1] + 256 * a[2] + 65536 * a[3]

\* a < b on words of one width.
WordLess(a, b) ==
  \E i \in 1..Len(a) :
    /\ a[i] < b[i]
    /\ \A j \in (i + 1)..Len(a) : a[j] = b[j]

\* usize::MAX
USIZE_MAX == [i \in 1..WordBytes |-> 255]

\* RawYarn::SSO_LEN
SSO_LEN ==
  LET bytes_usable == WordBytes * 2 - 1
      max_len == Pow2(8 - 2)
  IN IF bytes_usable < max_len THEN bytes_usable ELSE max_len

\* The tags.
SMALL == 3
STATIC == 1
HEAP == 2
ALIASED == 0

SHIFT8 == 8 - 2
SHIFT == 8 * WordBytes - 2
MASK8 == Shl(USIZE_MAX, SHIFT8)
MASK == Shl(USIZE_MAX, SHIFT)

\* Memory is the buffers allocated so far; a pointer is a buffer and an
\* offset into it, and its word is not null.
Ptr(k, off) == [buf |-> k, off |-> off]
PtrWord(p) == <<p.off, p.buf, 0, 0, 0, 0, 0, 0>>
WordPtr(a) == Ptr(a[2], a[1])
PtrAdd(p, n) == Ptr(p.buf, p.off + n)

\* Reading n bytes at p (`read_unaligned`).
ReadAt(mem, p, n) == SubSeq(mem[p.buf], p.off + 1, p.off + n)

\* A RawYarn is its sixteen bytes: the pointer word, then the length word;
\* seen as Small, fifteen bytes of data and the length byte.
LenWord(y) == SubSeq(y, WordBytes + 1, 2 * WordBytes)
PtrOf(y) == SubSeq(y, 1, WordBytes)

\* RawYarn::kind
RawYarn_kind(y) == WordNat(Shr(LenWord(y), SHIFT))

\* RawYarn::is_small
RawYarn_is_small(y) == RawYarn_kind(y) = SMALL

\* RawYarn::len, as a word.
RawYarn_len(y) ==
  IF RawYarn_is_small(y)
    THEN BitAnd(Widen(<<y[2 * WordBytes]>>, WordBytes), BitNot(MASK8))
  ELSE BitAnd(LenWord(y), BitNot(MASK))

\* RawYarn::as_ptr and RawYarn::as_slice
RawYarn_as_slice(y, mem) ==
  IF RawYarn_is_small(y) THEN SubSeq(y, 1, WordNat(RawYarn_len(y)))
  ELSE ReadAt(mem, WordPtr(PtrOf(y)), WordNat(RawYarn_len(y)))

\* What a constructor returns: a yarn, None, or a panic.  An assertion of
\* debug builds that fails is recorded with the yarn a release build goes
\* on to build.
YarnSome(y, mem) == [some |-> TRUE, panic |-> FALSE, debug |-> FALSE, y |-> y, mem |-> mem]
YarnNone(mem) == [some |-> FALSE, panic |-> FALSE, debug |-> FALSE, y |-> <<>>, mem |-> mem]
YarnPanic(mem) == [some |-> FALSE, panic |-> TRUE, debug |-> FALSE, y |-> <<>>, mem |-> mem]

\* A packing that does not assert the length.
from_ptr_len_tag_unasserted(ptr, len, tag, mem) ==
  [YarnSome(PtrWord(ptr) \o BitOr(len, Shl(Usize(tag), SHIFT)), mem)
     EXCEPT !.debug = (tag = 0 /\ len = Usize(0)) \/ tag = SMALL]

\* RawYarn::from_ptr_len_tag: len is a word.
from_ptr_len_tag(ptr, len, tag, mem) ==
  IF ~WordLess(len, Shr(USIZE_MAX, 2)) THEN YarnPanic(mem)
  ELSE [YarnSome(PtrWord(ptr) \o BitOr(len, Shl(Usize(tag), SHIFT)), mem)
          EXCEPT !.debug = (tag = 0 /\ len = Usize(0)) \/ tag = SMALL]

\* (len as u8) | SMALL << SHIFT8
TaggedLen(len) == BitOr(ToBytes(len, 1), Shl(ToBytes(SMALL, 1), SHIFT8))[1]

\* A register whose second load of four bytes is always put at byte 4.
RegisterFixedShift(mem, ptr, len) ==
  IF len > 8
    THEN LET x0 == Widen(ReadAt(mem, ptr, 8), 16)
             x1 == Widen(ReadAt(mem, PtrAdd(ptr, len - 8), 8), 16)
         IN BitOr(x0, Shl(x1, (len - 8) * 8))
  ELSE IF len > 3
    THEN LET x0 == Widen(ReadAt(mem, ptr, 4), 16)
             x1 == Widen(ReadAt(mem, PtrAdd(ptr, len - 4), 4), 16)
         IN BitOr(x0, Shl(x1, 32))
  ELSE IF len > 0
    THEN LET x0 == Widen(ReadAt(mem, ptr, 1), 16)
             x1 == Widen(ReadAt(mem, PtrAdd(ptr, len \div 2), 1), 16)
             x2 == Widen(ReadAt(mem, PtrAdd(ptr, len - 1), 1), 16)
         IN BitOr(BitOr(x0, Shl(x1, (len \div 2) * 8)), Shl(x2, (len - 1) * 8))
  ELSE Widen(<<>>, 16)

\* The register of the specialization for 64-bit architectures: the bytes
\* at ptr, read with overlapping loads, with all higher bytes zero.
Register(mem, ptr, len) ==
  IF len > 8
    THEN LET x0 == Widen(ReadAt(mem, ptr, 8), 16)
             x1 == Widen(ReadAt(mem, PtrAdd(ptr, len - 8), 8), 16)
         IN BitOr(x0, Shl(x1, (len - 8) * 8))
  ELSE IF len > 3
    THEN LET x0 == Widen(ReadAt(mem, ptr, 4), 16)
             x1 == Widen(ReadAt(mem, PtrAdd(ptr, len - 4), 4), 16)
         IN BitOr(x0, Shl(x1, (len - 4) * 8))
  ELSE IF len > 0
    THEN LET x0 == Widen(ReadAt(mem, ptr, 1), 16)
             x1 == Widen(ReadAt(mem, PtrAdd(ptr, len \div 2), 1), 16)
             x2 == Widen(ReadAt(mem, PtrAdd(ptr, len - 1), 1), 16)
         IN BitOr(BitOr(x0, Shl(x1, (len \div 2) * 8)), Shl(x2, (len - 1) * 8))
  ELSE Widen(<<>>, 16)

\* The specialization: the register, with the length byte set.
InlineWordLoads(mem, ptr, len) ==
  [Register(mem, ptr, len) EXCEPT ![2 * WordBytes] = TaggedLen(len)]

\* The loop of the other architectures: data starts as zeros and gets the
\* bytes one by one.
InlineBytewise(mem, ptr, len) ==
  [i \in 1..(2 * WordBytes) |->
     IF i = 2 * WordBytes THEN TaggedLen(len)
     ELSE IF i <= len THEN ReadAt(mem, PtrAdd(ptr, i - 1), 1)[1]
     ELSE 0]

\* RawYarn::from_slice_inlined_unchecked, for len <= SSO_LEN.
from_slice_inlined_unchecked(mem, ptr, len) ==
  IF 2 * WordBytes = 16 THEN InlineWordLoads(mem, ptr, len)
  ELSE InlineBytewise(mem, ptr, len)

\* alloc::Layout
Layout(size, align) == [size |-> size, align |-> align]

\* RawYarn::from_slice_inlined
from_slice_inlined(layout, ptr, mem) ==
  IF layout.align > WordBytes THEN YarnPanic(mem)
  ELSE IF layout.size > SSO_LEN THEN YarnNone(mem)
  ELSE YarnSome(from_slice_inlined_unchecked(mem, ptr, layout.size), mem)

\* RawYarn::alias_slice without the attempt to store the slice inline.
alias_slice_direct(layout, ptr, mem) ==
  from_ptr_len_tag(ptr, Usize(layout.size), ALIASED, mem)

\* RawYarn::alias_slice
alias_slice(layout, ptr, mem) ==
  IF from_slice_inlined(layout, ptr, mem).panic \/ from_slice_inlined(layout, ptr, mem).some
    THEN from_slice_inlined(layout, ptr, mem)
  ELSE from_ptr_len_tag(ptr, Usize(layout.size), ALIASED, mem)

\* AlignedBox::concat: a new allocation of layout.size() bytes, filled with
\* the slices.  The box is the allocation's buffer, its length and its
\* alignment.
AlignedBox_concat(layout, slices, mem) ==
  [mem |-> Append(mem, Flatten(slices)),
   box |-> [buf |-> Len(mem) + 1, len |-> layout.size, align |-> layout.align]]

\* AlignedBox::new
AlignedBox_new(layout, ptr, mem) ==
  AlignedBox_concat(layout, <<ReadAt(mem, ptr, layout.size)>>, mem)

\* AlignedBox::from_vec: the vector's buffer becomes the box, or is copied
\* for an alignment above 1.
AlignedBox_from_vec(align, data, mem) ==
  IF align = 1
    THEN [mem |-> Append(mem, data),
          box |-> [buf |-> Len(mem) + 1, len |-> Len(data), align |-> align]]
  ELSE AlignedBox_new(Layout(Len(data), align), Ptr(Len(mem) + 1, 0),
                      Append(mem, data))

\* RawYarn::from_heap
from_heap(box, mem) ==
  IF \/ from_slice_inlined(Layout(box.len, box.align), Ptr(box.buf, 0), mem).panic
     \/ from_slice_inlined(Layout(box.len, box.align), Ptr(box.buf, 0), mem).some
    THEN from_slice_inlined(Layout(box.len, box.align), Ptr(box.buf, 0), mem)
  ELSE from_ptr_len_tag(Ptr(box.buf, 0), Usize(box.len), HEAP, mem)

\* RawYarn::copy_slice
copy_slice(layout, ptr, mem) ==
  IF from_slice_inlined(layout, ptr, mem).panic \/ from_slice_inlined(layout, ptr, mem).some
    THEN from_slice_inlined(layout, ptr, mem)
  ELSE from_heap(AlignedBox_new(layout, ptr, mem).box,
                 AlignedBox_new(layout, ptr, mem).mem)

\* RawYarn::new of the static slice of len bytes at ptr.
RawYarn_new(ptr, len, mem) ==
  IF len < SSO_LEN THEN YarnSome(from_slice_inlined_unchecked(mem, ptr, len), mem)
  ELSE from_ptr_len_tag(ptr, Usize(len), STATIC, mem)

\* RawYarn::concat: on the heap above SSO_LEN, else through an array of
\* SSO_LEN bytes that the slices are copied into; a slice that does not
\* fit in the array is a panic.
concat(layout, iter, mem) ==
  IF layout.size > SSO_LEN
    THEN from_heap(AlignedBox_concat(layout, iter, mem).box,
                   AlignedBox_concat(layout, iter, mem).mem)
  ELSE IF Len(Flatten(iter)) > SSO_LEN THEN YarnPanic(mem)
  ELSE from_slice_inlined(layout, Ptr(Len(mem) + 1, 0),
                          Append(mem, Widen(Flatten(iter), SSO_LEN)))

\* RawYarn::from_char, of a character given by its UTF-8 bytes: the bytes
\* are in an array of four.
from_char(c, mem) ==
  YarnSome(from_slice_inlined_unchecked(Append(mem, Widen(c, 4)),
                                        Ptr(Len(mem) + 1, 0), Len(c)),
           Append(mem, Widen(c, 4)))

\* RawYarn::from_byte
from_byte(c, mem) ==
  YarnSome(from_slice_inlined_unchecked(Append(mem, <<c>>), Ptr(Len(mem) + 1, 0), 1),
           Append(mem, <<c>>))

\* from_fmt_args: Buf::Sso(len, bytes) and Buf::Vec(vec).
BufSso(len, bytes) == [kind |-> "Sso", len |-> len, bytes |-> bytes, vec |-> <<>>]
BufVec(vec) == [kind |-> "Vec", len |-> 0, bytes |-> <<>>, vec |-> vec]

\* A write that moves to the Vec form with the new string only.
write_str_drops(w, str) ==
  IF w.kind = "Sso"
    THEN IF w.len + Len(str) > SSO_LEN THEN BufVec(str)
         ELSE BufSso(w.len + Len(str),
                     [i \in 1..SSO_LEN |->
                        IF i > w.len /\ i <= w.len + Len(str) THEN str[i - w.len]
                        ELSE w.bytes[i]])
  ELSE BufVec(w.vec \o str)

\* Buf::write_str
write_str(w, str) ==
  IF w.kind = "Sso"
    THEN IF w.len + Len(str) > SSO_LEN
           THEN BufVec(SubSeq(w.bytes, 1, w.len) \o str)
         ELSE BufSso(w.len + Len(str),
                     [i \in 1..SSO_LEN |->
                        IF i > w.len /\ i <= w.len + Len(str) THEN str[i - w.len]
                        ELSE w.bytes[i]])
  ELSE BufVec(w.vec \o str)

\* from_fmt_args, when args.as_str() is a constant: the static string at
\* ptr.
from_fmt_args_const(ptr, len, mem) == RawYarn_new(ptr, len, mem)

\* from_fmt_args, after write_fmt has written to w.
from_fmt_args_written(w, mem) ==
  IF w.kind = "Sso"
    THEN from_slice_inlined(Layout(w.len, 1), Ptr(Len(mem) + 1, 0),
                            Append(mem, w.bytes))
  ELSE from_heap(AlignedBox_from_vec(1, w.vec, mem).box,
                 AlignedBox_from_vec(1, w.vec, mem).mem)

\* ------------------------------------------------- the yarn constructors
\* The slices yarns are built from: of every length up to two bytes past
\* SSO_LEN, each with bytes that differ from place to place, or all ones.
YarnLens == 0..(SSO_LEN + 2)
Ramp(n, base) == [i \in 1..n |-> (base + i) % 256]
YarnInputs ==
  {Ramp(n, 0) : n \in YarnLens} \cup {Ramp(n, 240) : n \in YarnLens}
    \cup {[i \in 1..n |-> 255] : n \in YarnLens}

\* The alignments of the layouts passed in.
Aligns == {1, 8, 16}

\* The slice s in memory, with bytes that are not its own around it, and
\* the pointer to it.
InputMem(s) == << <<238, 238>> \o s \o <<238, 238>> >>
InputPtr == Ptr(1, 2)

\* The lengths passed to from_ptr_len_tag: small ones, and the ones around
\* a quarter of the address space.
LenWords ==
  {Usize(0), Usize(1), Usize(SSO_LEN), Usize(SSO_LEN + 1), Usize(65535),
   <<1, 2, 3, 4, 5, 6, 7, 8>>,
   <<255, 255, 255, 255, 255, 255, 255, 62>>,
   <<253, 255, 255, 255, 255, 255, 255, 63>>,
   <<254, 255, 255, 255, 255, 255, 255, 63>>,
   <<255, 255, 255, 255, 255, 255, 255, 63>>,
   <<0, 0, 0, 0, 0, 0, 0, 64>>,
   <<1, 0, 0, 0, 0, 0, 0, 128>>,
   <<0, 0, 0, 0, 0, 0, 0, 192>>,
   USIZE_MAX}
Tags == {ALIASED, STATIC, HEAP, SMALL}

\* Characters, by their UTF-8 bytes, and bytes.
YarnChars == {<<97>>, <<195, 169>>, <<226, 130, 172>>, <<240, 159, 152, 128>>}
YarnBytes == {0, 1, 255}

\* The strings written by write_fmt.
FmtStrings ==
  {<<>>, <<1>>, Ramp(SSO_LEN \div 2, 16), Ramp(SSO_LEN \div 2 + 1, 32),
   Ramp(SSO_LEN, 64), Ramp(SSO_LEN + 1, 96)}

\* The record of a call: the constructor, the bytes and the alignment it
\* was given, the length word and the tag, and what it returned.
YarnCall(op, s, align, len, tag, res) ==
  [op |-> op, s |-> s, align |-> align, len |-> len, tag |-> tag, res |-> res]

YarnRest == UNCHANGED <<lexvars, ctxvars, bldvars, lockvars>>
\* No constructor has been called yet.
NotFormatting == buf.kind = "none" /\ yarn.op = "none"

YarnNew ==
  /\ NotFormatting
  /\ \E s \in YarnInputs :
       yarn' = YarnCall("new", s, 1, Usize(Len(s)), STATIC,
                        RawYarn_new(InputPtr, Len(s), InputMem(s)))
  /\ UNCHANGED <<buf, written>>
  /\ YarnRest

YarnAliasSlice ==
  /\ NotFormatting
  /\ \E s \in YarnInputs : \E a \in Aligns :
       yarn' = YarnCall("alias_slice", s, a, Usize(Len(s)), ALIASED,
                        alias_slice(Layout(Len(s), a), InputPtr, InputMem(s)))
  /\ UNCHANGED <<buf, written>>
  /\ YarnRest

YarnCopySlice ==
  /\ NotFormatting
  /\ \E s \in YarnInputs : \E a \in Aligns :
       yarn' = YarnCall("copy_slice", s, a, Usize(Len(s)), HEAP,
                        copy_slice(Layout(Len(s), a), InputPtr, InputMem(s)))
  /\ UNCHANGED <<buf, written>>
  /\ YarnRest

\* from_heap of a box that holds s.
YarnFromHeap ==
  /\ NotFormatting
  /\ \E s \in YarnInputs : \E a \in Aligns :
       yarn' = YarnCall("from_heap", s, a, Usize(Len(s)), HEAP,
                        from_heap([buf |-> 1, len |-> Len(s), align |-> a], <<s>>))
  /\ UNCHANGED <<buf, written>>
  /\ YarnRest

\* concat of s given as two slices.
YarnConcat ==
  /\ NotFormatting
  /\ \E s \in YarnInputs : \E k \in 0..Len(s) : \E a \in Aligns :
       yarn' = YarnCall("concat", s, a, Usize(Len(s)), HEAP,
                        concat(Layout(Len(s), a),
                               <<SubSeq(s, 1, k), SubSeq(s, k + 1, Len(s))>>,
                               <<>>))
  /\ UNCHANGED <<buf, written>>
  /\ YarnRest

YarnFromChar ==
  /\ NotFormatting
  /\ \E c \in YarnChars :
       yarn' = YarnCall("from_char", c, 1, Usize(Len(c)), SMALL, from_char(c, <<>>))
  /\ UNCHANGED <<buf, written>>
  /\ YarnRest

YarnFromByte ==
  /\ NotFormatting
  /\ \E c \in YarnBytes :
       yarn' = YarnCall("from_byte", <<c>>, 1, Usize(1), SMALL, from_byte(c, <<>>))
  /\ UNCHANGED <<buf, written>>
  /\ YarnRest

YarnFromSliceInlined ==
  /\ NotFormatting
  /\ \E s \in YarnInputs : \E a \in Aligns :
       yarn' = YarnCall("from_slice_inlined", s, a, Usize(Len(s)), SMALL,
                        from_slice_inlined(Layout(Len(s), a), InputPtr, InputMem(s)))
  /\ UNCHANGED <<buf, written>>
  /\ YarnRest

YarnFromPtrLenTag ==
  /\ NotFormatting
  /\ \E n \in LenWords : \E t \in Tags :
       yarn' = YarnCall("from_ptr_len_tag", <<>>, 1, n, t,
                        from_ptr_len_tag(InputPtr, n, t, InputMem(<<>>)))
  /\ UNCHANGED <<buf, written>>
  /\ YarnRest

\* from_fmt_args of arguments that are one constant string.
FmtConstant ==
  /\ NotFormatting
  /\ \E s \in YarnInputs :
       yarn' = YarnCall("from_fmt_args", s, 1, Usize(Len(s)), STATIC,
                        from_fmt_args_const(InputPtr, Len(s), InputMem(s)))
  /\ written' = <<>>
  /\ UNCHANGED buf
  /\ YarnRest

\* from_fmt_args of other arguments: the buffer starts inline and empty.
FmtBegin ==
  /\ NotFormatting
  /\ buf' = BufSso(0, [i \in 1..SSO_LEN |-> 0])
  /\ written' = <<>>
  /\ yarn' = [op |-> "none"]
  /\ YarnRest

\* write_fmt calls write_str.
FmtWrite ==
  /\ buf.kind # "none"
  /\ Len(written) < MaxWrites
  /\ \E str \in FmtStrings :
       /\ buf' = write_str(buf, str)
       /\ written' = Append(written, str)
  /\ UNCHANGED yarn
  /\ YarnRest

\* write_fmt has returned: the buffer becomes the yarn.
FmtReturn ==
  /\ buf.kind # "none"
  /\ yarn' = YarnCall("from_fmt_args", Flatten(written), 1,
                      Usize(Len(Flatten(written))), HEAP,
                      from_fmt_args_written(buf, <<>>))
  /\ buf' = [kind |-> "none"]
  /\ UNCHANGED written
  /\ YarnRest

InitYarn == LexIdle /\ CtxIdle /\ BuildIdle /\ LockIdle /\ YarnIdle

NextYarn ==
  \/ YarnNew
  \/ YarnAliasSlice
  \/ YarnCopySlice
  \/ YarnFromHeap
  \/ YarnConcat
  \/ YarnFromChar
  \/ YarnFromByte
  \/ YarnFromSliceInlined
  \/ YarnFromPtrLenTag
  \/ FmtConstant
  \/ FmtBegin
  \/ FmtWrite
  \/ FmtReturn

SpecYarn == InitYarn /\ [][NextYarn]_vars

\* ================================================================ claims
\* A token starts where the token before it ends, the first one at 0.
TokStart(i) == IF i = 1 THEN 0 ELSE tokens[i - 1].end

\* C1 (coverage): once lex has finished, the tokens of the stream, each
\* starting at the end of the one before it and the first at 0, partition
\* [0, N): no token has a negative length and the last token ends at N, the
\* length of the file.
C1_Coverage ==
  pc = "done" =>
    /\ \A i \in 1..Len(tokens) : TokStart(i) <= tokens[i].end
    /\ (tokens = <<>> => Len(text) = 0)
    /\ (tokens # <<>> => tokens[Len(tokens)].end = Len(text))

\* A finished pass over a file of at least three bytes whose stream holds
\* whitespace, an unexpected character and a token of a rule.
C1_Witness ==
  /\ pc = "done"
  /\ Len(text) >= 3
  /\ \E i, j, k \in 1..Len(tokens) :
       /\ tokens[i].lexeme = WHITESPACE
       /\ tokens[j].lexeme = UNEXPECTED
       /\ tokens[k].lexeme >= 0

\* C2 (monotonicity): at every point of the driver loop the ends of the
\* tokens are nondecreasing in stream order, no token was added with a
\* length below zero, and the cursor is the end of the last token.
C2_Monotonic ==
  /\ \A i, j \in 1..Len(tokens) : i < j => tokens[i].end <= tokens[j].end
  /\ \A i \in 1..Len(tokens) : tokens[i].end - TokStart(i) >= 0
  /\ cursor = (IF tokens = <<>> THEN 0 ELSE tokens[Len(tokens)].end)

\* A line comment whose closing newline was cropped from it, followed by
\* the token the newline became.
C2_Witness ==
  /\ rs = 3
  /\ \E i \in 1..(Len(tokens) - 1) :
       /\ tokens[i].lexeme >= 0
       /\ Rule(rs, tokens[i].lexeme).kind = "Comment"
       /\ tokens[i].end - TokStart(i) >= 2
       /\ text[tokens[i].end + 1] = "\n"
       /\ tokens[i + 1].end = tokens[i].end + 1

\* The spans handed out before the latest operation still show what they
\* showed when they were handed out.
StableSpan(m) ==
  /\ lookup_range(Ctx, m.span) = m.range
  /\ SpanRange(m.span, Ctx) = [some |-> m.range.some, lo |-> m.range.lo,
                               hi |-> m.range.hi]
  /\ SpanText(m.span, Ctx) = m.text

\* C3 (span stability): after every sequence of new_file, new_span, fuse,
\* new_synthetic and add_comment operations, lookup_range, range and text
\* of every span minted so far return what they returned when the span was
\* minted.
C3_SpanStability == \A i \in 1..Len(spans) : StableSpan(spans[i])

\* A real span and a synthetic span, both minted at least two operations
\* ago, in a context that has since got a further file and a comment.
C3_Witness ==
  /\ \E i, j \in 1..Len(spans) :
       /\ ~is_synthetic(spans[i].span)
       /\ is_synthetic(spans[j].span)
       /\ spans[i].text # <<>>
       /\ spans[j].text # <<>>
       /\ spans[i].at + 2 <= ops
       /\ spans[j].at + 2 <= ops
  /\ log # <<>>

\* C4 (fusion correctness): fuse(a, b) of two atomic real spans of one file
\* returns the span with start = id(a) and end = id(b), whose range is from
\* the least start to the greatest end of a and b; of spans of different
\* files it returns the error and no span is created.
C4_Fusion ==
  outcome.op = "fuse" =>
    LET ra == lookup_range(Ctx, outcome.a)
        rb == lookup_range(Ctx, outcome.b)
    IN IF ra.file = rb.file
         THEN /\ outcome.ok
              /\ outcome.span.start = outcome.a.start
              /\ outcome.span.end = outcome.b.start
              /\ spans[Len(spans)].span = outcome.span
              /\ Len(spans) = outcome.spans_before + 1
              /\ SpanRange(outcome.span, Ctx)
                   = [some |-> TRUE,
                      lo |-> IF ra.lo <= rb.lo THEN ra.lo ELSE rb.lo,
                      hi |-> IF ra.hi >= rb.hi THEN ra.hi ELSE rb.hi]
              /\ SpanText(outcome.span, Ctx)
                   = Slice(files[ra.file + 1],
                           IF ra.lo <= rb.lo THEN ra.lo ELSE rb.lo,
                           IF ra.hi >= rb.hi THEN ra.hi ELSE rb.hi)
       ELSE /\ ~outcome.ok
            /\ Len(spans) = outcome.spans_before
            /\ Len(ranges) = outcome.ranges_before

\* Two spans of one file were fused, the second starting before the first
\* and the first ending after the second starts.
C4_Witness ==
  /\ outcome.op = "fuse"
  /\ outcome.ok
  /\ lookup_range(Ctx, outcome.b).lo < lookup_range(Ctx, outcome.a).lo
  /\ lookup_range(Ctx, outcome.b).hi < lookup_range(Ctx, outcome.a).hi

\* The candidates of the latest match that pass the validation of emit.
ValidOfLast ==
  {c \in last.candidates :
     ValidCandidate(text, Sp(last.start, last.start + last.len),
                    Rule(rs, c.lexeme), c.is_close)}

\* C5 (candidate tie-break): when candidates of the longest match pass
\* validation, the one emit selects passes it and is the least of them by
\* lexeme and then by side, the opening side first; the token emit adds for
\* an opening candidate carries the lexeme selected.
C5_TieBreak ==
  (last.set /\ ~last.panic /\ ValidOfLast # {}) =>
    /\ last.best \in ValidOfLast
    /\ \A c \in ValidOfLast :
         \/ last.best.lexeme < c.lexeme
         \/ (last.best.lexeme = c.lexeme /\ (last.best.is_close => c.is_close))
    /\ (~last.best.is_close /\ last.kind # "LineEnd") =>
         \E i \in 1..Len(tokens) :
           /\ i > last.tokens_before
           /\ i <= last.tokens_before + 3
           /\ tokens[i].lexeme = last.best.lexeme

\* Two rules match the same longest text and both pass validation.
C5_Witness ==
  /\ last.set
  /\ \E c, d \in ValidOfLast : c.lexeme < d.lexeme

\* The bound of the overparse property on the cursor emit left.
OverparseBound ==
  /\ last.start + last.len <= last.after
  /\ last.after <= last.start + last.len + last.extra

\* C6 (overparse bounds), as stated: after emit has worked on a match, the
\* cursor is between start + len and start + len + extra, for every kind of
\* rule.
C6_AsStated == (last.set /\ ~last.panic) => OverparseBound

\* C6 (overparse bounds), amended: the cursor emit leaves is never before
\* start + len.  Without the run of XID characters emit skips after the
\* token, it is start + len for a keyword, a bracket, an identifier, a
\* number and a line end, and start + len + extra for an unopened closer; a
\* comment and a quoted string end where the scan of their body ended, at or
\* after start + len + extra.
C6_Overparse ==
  (last.set /\ ~last.panic) =>
    /\ last.start + last.len <= last.after
    /\ last.xids >= 0
    /\ IF last.best.is_close
         THEN last.after - last.xids = last.start + last.len + last.extra
       ELSE IF last.kind \in {"Comment", "Quoted"}
         THEN last.after - last.xids >= last.start + last.len + last.extra
       ELSE last.after - last.xids = last.start + last.len

\* A keyword whose match has extra bytes and is followed by XID characters
\* that reach past them.
C6_Witness ==
  /\ last.set
  /\ last.kind = "Keyword"
  /\ last.extra > 0
  /\ last.xids > last.extra

\* The extra_chars diagnostics on the bytes [lo, hi).
ExtraCharsOn(lo, hi) ==
  {i \in 1..Len(diags) :
     diags[i].name = "extra_chars" /\ diags[i].lo = lo /\ diags[i].hi = hi}

\* C7 (extra characters reported once): when the latest match has extra
\* bytes, exactly one extra_chars diagnostic is on the bytes
\* [start + len, start + len + extra).
C7_ExtraOnce ==
  (last.set /\ ~last.panic /\ last.extra > 0) =>
    Cardinality(ExtraCharsOn(last.start + last.len,
                             last.start + last.len + last.extra)) = 1

\* The tokens of the bracket rules.
IsBracketToken(i) ==
  /\ tokens[i].lexeme >= 0
  /\ Rule(rs, tokens[i].lexeme).kind = "Bracket"

\* Every bracket token is linked to its partner, an opener to a closer
\* after it, and the linked pairs nest.
Balanced ==
  /\ \A i \in 1..Len(tokens) :
       IsBracketToken(i) =>
         /\ tokens[i].meta.kind = "Offset"
         /\ tokens[i].meta.cursor # 0
         /\ i + tokens[i].meta.cursor \in 1..Len(tokens)
         /\ tokens[i + tokens[i].meta.cursor].lexeme = tokens[i].lexeme
         /\ tokens[i + tokens[i].meta.cursor].meta.kind = "Offset"
         /\ tokens[i + tokens[i].meta.cursor].meta.cursor = 0 - tokens[i].meta.cursor
  /\ \A i, j \in 1..Len(tokens) :
       (/\ IsBracketToken(i) /\ IsBracketToken(j)
        /\ tokens[i].meta.cursor > 0 /\ tokens[j].meta.cursor > 0
        /\ i < j /\ j < i + tokens[i].meta.cursor)
         => j + tokens[j].meta.cursor < i + tokens[i].meta.cursor

\* What one step of the driver does to the closer stack: emit of an opener
\* pushes one closer, the closing text of its rule; a pop takes one closer
\* off and adds one token; no other step changes the stack.
ClosersStep ==
  IF pc = "emit" /\ pc' = "skip" /\ last'.kind = "Bracket" /\ ~last'.best.is_close
    THEN /\ Len(closers') = Len(closers) + 1
         /\ SubSeq(closers', 1, Len(closers)) = closers
         /\ closers'[Len(closers')].close
              = Rule(rs, last'.best.lexeme).bracket.close
  ELSE IF pc = "pop" /\ pc' = "skip"
    THEN /\ closers' = SubSeq(closers, 1, Len(closers) - 1)
         /\ Len(closers) >= 1
         /\ Len(tokens') = Len(tokens) + 1
  ELSE closers' = closers

\* C8 (bracket balance): a pass that ends with no diagnostics ends with an
\* empty closer stack and with every opener of the stream linked to a closer
\* after it, the pairs properly nested; every opener pushes exactly one
\* closer and every matched closer pops exactly one.
C8_BracketBalance ==
  /\ []((pc = "done" /\ diags = <<>>) => (closers = <<>> /\ Balanced))
  /\ [][ClosersStep]_vars

\* A finished pass with no diagnostics over a bracket nested in a bracket.
C8_Witness ==
  /\ pc = "done"
  /\ diags = <<>>
  /\ \E i, j \in 1..Len(tokens) :
       /\ IsBracketToken(i) /\ IsBracketToken(j)
       /\ i < j
       /\ tokens[j].meta.cursor > 0
       /\ j + tokens[j].meta.cursor < i + tokens[i].meta.cursor

\* The comments attached to the host h by the calls made so far, in the
\* order of the calls.
Attached(h) ==
  LET made == SelectSeq(log, LAMBDA e : e.host = h)
  IN [i \in 1..Len(made) |-> made[i].comment]

\* C9 (comment chain): after every sequence of calls, the comments of every
\* span are exactly the comments attached to it, in the order they were
\* attached and as many times as they were attached; a span nothing was
\* attached to has none.
C9_CommentChain ==
  /\ \A h \in AllSpans : SpanComments(h, Ctx) = Attached(h)
  /\ \A h \in DOMAIN comments : h \in AllSpans

\* One span has the same comment twice and another span has a comment of
\* its own.
C9_Witness ==
  \E h, g \in AllSpans :
    /\ h # g
    /\ Len(SpanComments(h, Ctx)) = 2
    /\ SpanComments(h, Ctx)[1] = SpanComments(h, Ctx)[2]
    /\ SpanComments(g, Ctx) # <<>>
    /\ SpanComments(g, Ctx)[1] # SpanComments(h, Ctx)[1]

\* An UNEXPECTED token added by the fallback step of the driver: one that
\* is neither the token of an unopened closer nor a run of XID characters
\* emit skipped.
IsFallback(i) ==
  /\ tokens[i].lexeme = UNEXPECTED
  /\ ~\E k \in 1..Len(diags) :
        \/ (diags[k].name = "unopened" /\ diags[k].lo = TokStart(i))
        \/ (diags[k].site = "xid" /\ diags[k].lo = TokStart(i)
              /\ diags[k].hi = tokens[i].end)

\* The maximal runs of consecutive fallback tokens, by first and last token.
FallbackRuns ==
  {r \in (1..Len(tokens)) \X (1..Len(tokens)) :
     /\ r[1] <= r[2]
     /\ \A i \in r[1]..r[2] : IsFallback(i)
     /\ (r[1] > 1 => ~IsFallback(r[1] - 1))
     /\ (r[2] < Len(tokens) => ~IsFallback(r[2] + 1))}

UnexpectedTokenDiags == {k \in 1..Len(diags) : diags[k].name = "unexpected_token"}

\* C10 (unexpected-run coalescing): once lex has finished, every maximal
\* run of fallback tokens has exactly one unexpected_token diagnostic, on
\* exactly the bytes of the run, and there is no other unexpected_token
\* diagnostic.
C10_Coalescing ==
  pc = "done" =>
    /\ \A r \in FallbackRuns :
         Cardinality({k \in UnexpectedTokenDiags :
                        /\ diags[k].lo = TokStart(r[1])
                        /\ diags[k].hi = tokens[r[2]].end}) = 1
    /\ Cardinality(UnexpectedTokenDiags) = Cardinality(FallbackRuns)

\* The character that ends at offset p of the text and the one that starts
\* there are both XID characters.
InsideXids(p) ==
  /\ LastChar(Slice(text, 0, p)) # <<>>
  /\ is_xid(LastChar(Slice(text, 0, p)))
  /\ FirstChar(From(text, p)) # <<>>
  /\ is_xid(FirstChar(From(text, p)))

\* The diagnostics and the tokens the latest step added.
NewDiags == SubSeq(diags', Len(diags) + 1, Len(diags'))
NewTokens == SubSeq(tokens', Len(tokens) + 1, Len(tokens'))

\* An emit step that selects the closing side of a bracket rule.
EmitsCloser == pc = "emit" /\ last'.set /\ last'.best.is_close /\ ~last'.panic

\* What an emit that selects a candidate with is_close does besides adding
\* tokens: exactly one `unopened` diagnostic, on the bytes of the match, and
\* the closer stack as it was.
UnopenedReport ==
  /\ Len(SelectSeq(NewDiags, LAMBDA d : d.name = "unopened")) = 1
  /\ \E k \in 1..Len(NewDiags) :
       /\ NewDiags[k].name = "unopened"
       /\ NewDiags[k].lo = cursor
       /\ NewDiags[k].hi = cursor + last'.len
  /\ closers' = closers
  /\ closers = last'.closers_before

\* C11 (unopened closer), as stated: an emit that selects a candidate with
\* is_close reports exactly one `unopened` diagnostic, adds a single
\* UNEXPECTED token of len + extra bytes, adds no token with the lexeme of
\* the bracket and leaves the closer stack as it was.
C11_AsStated ==
  [][EmitsCloser =>
       /\ UnopenedReport
       /\ Len(NewTokens) = 1
       /\ NewTokens[1].lexeme = UNEXPECTED
       /\ NewTokens[1].end = cursor + last'.len + last'.extra]_vars

\* C11 (unopened closer), amended: an emit that selects a candidate with
\* is_close reports exactly one `unopened` diagnostic, on the bytes of the
\* match, and leaves the closer stack as it was; it adds an UNEXPECTED
\* token of len + extra bytes and, when the closer ends in an XID character
\* and XID characters follow it, a second UNEXPECTED token that holds that
\* run; it adds no other token, and none with the lexeme of the bracket.
C11_Unopened ==
  [][EmitsCloser =>
       /\ UnopenedReport
       /\ Len(NewTokens) = (IF InsideXids(cursor + last'.len + last'.extra)
                              THEN 2 ELSE 1)
       /\ NewTokens[1].lexeme = UNEXPECTED
       /\ NewTokens[1].end = cursor + last'.len + last'.extra
       /\ Len(NewTokens) = 2 =>
            /\ NewTokens[2].lexeme = UNEXPECTED
            /\ NewTokens[2].end = cursor'
            /\ NewTokens[2].end > NewTokens[1].end
            /\ ~InsideXids(cursor')]_vars

\* emit has just reported a word-like closer as unopened and added the two
\* UNEXPECTED tokens: the closer and the XID characters after it.
C11_Witness ==
  /\ pc = "skip"
  /\ last.set
  /\ ~last.panic
  /\ last.best.is_close
  /\ cursor = last.after
  /\ Len(tokens) = last.tokens_before + 2
  /\ tokens[Len(tokens)].lexeme = UNEXPECTED
  /\ tokens[Len(tokens) - 1].lexeme = UNEXPECTED
  /\ tokens[Len(tokens) - 1].end = last.start + last.len + last.extra
  /\ tokens[Len(tokens)].end > tokens[Len(tokens) - 1].end
  /\ closers = last.closers_before

\* emit has just reported a closer as unopened while another bracket was
\* open: one UNEXPECTED token, and the open bracket still on the stack.
C11_WitnessOpen ==
  /\ pc = "skip"
  /\ last.set
  /\ last.best.is_close
  /\ cursor = last.after
  /\ Len(tokens) = last.tokens_before + 1
  /\ tokens[Len(tokens)].lexeme = UNEXPECTED
  /\ closers # <<>>
  /\ closers = last.closers_before

\* C12 (no out-of-bounds cursor): the cursor never passes the end of the
\* text, and no finisher slices the text outside [0, N]: the lexer never
\* panics.
C12_InBounds == pc # "panic" /\ cursor <= Len(text)

\* The latest emit added the three tokens of a quoted string.
QuotedEmitted ==
  /\ last.set
  /\ ~last.panic
  /\ last.kind = "Quoted"
  /\ ~last.best.is_close
  /\ Len(tokens) >= last.tokens_before + 3

\* The quoted token of the latest emit, its marks, its rule, the closer that
\* was expected for it, and whether the scan found that closer.
QuotedToken == tokens[last.tokens_before + 2]
QuotedMarks == QuotedToken.meta.marks
QuotedRule == Rule(rs, last.best.lexeme)
QuotedClose ==
  Mirrored(text, Sp(last.start, last.start + last.len), QuotedRule, FALSE).text
QuotedClosed ==
  \A k \in (last.diags_before + 1)..Len(diags) :
    ~(diags[k].name = "unclosed" /\ diags[k].site = "quoted"
        /\ diags[k].lo = last.start)

\* The number of escapes in the marks, and the place before the five marks
\* of the g-th of them, counted from 0.
EscapeGroups == (Len(QuotedMarks) - 1) \div 5
GroupBase(g) == 1 + 5 * g

\* The marks after the first: nondecreasing, five for each escape and at
\* most one after them; the five of an escape are the start of its key, the
\* end of its key and three more, all equal to the end of the key for a
\* Basic and an Invalid escape; the last mark of a closed string is where
\* its closer begins.
MarksAfterFirst ==
  /\ Len(QuotedMarks) >= 1
  /\ (Len(QuotedMarks) - 1) % 5 \in {0, 1}
  /\ \A k \in 1..(Len(QuotedMarks) - 1) : QuotedMarks[k] <= QuotedMarks[k + 1]
  /\ \A g \in 0..(EscapeGroups - 1) :
       LET b == GroupBase(g)
           e == LongestEscape(QuotedRule.escapes, From(text, QuotedMarks[b + 1]))
       IN /\ e.hit
          /\ QuotedMarks[b + 2] = QuotedMarks[b + 1] + Len(e.key)
          /\ e.esc.kind \in {"Basic", "Invalid"} =>
               /\ QuotedMarks[b + 3] = QuotedMarks[b + 2]
               /\ QuotedMarks[b + 4] = QuotedMarks[b + 2]
               /\ QuotedMarks[b + 5] = QuotedMarks[b + 2]
  /\ QuotedClosed =>
       /\ StartsWith(From(text, QuotedMarks[Len(QuotedMarks)]), QuotedClose)
       /\ QuotedMarks[Len(QuotedMarks)] + Len(QuotedClose) = QuotedToken.end

\* C13 (quoted mark layout): the marks of every quoted token begin with the
\* offset just past its opener, start + len, and go on nondecreasing with
\* five marks for each escape, the end of the literal chunk before it being
\* pushed even when the chunk is empty, and the three marks after the key of
\* a Basic or an Invalid escape equal to the end of the key; the last mark
\* of a closed string is the offset where its closer begins.
C13_MarkLayout ==
  QuotedEmitted =>
    /\ MarksAfterFirst
    /\ QuotedMarks[1] = last.start + last.len

\* The layout the marks have whatever the match: the first mark is the end
\* of the bytes the automaton read, start + len + extra.
C13_LayoutFromEnd ==
  QuotedEmitted =>
    /\ MarksAfterFirst
    /\ QuotedMarks[1] = last.start + last.len + last.extra

\* A closed quoted string with two escapes, the second right after the first.
C13_Witness ==
  /\ QuotedEmitted
  /\ QuotedClosed
  /\ EscapeGroups >= 2
  /\ QuotedMarks[GroupBase(1) + 1] = QuotedMarks[GroupBase(0) + 5]

\* The escapes of the latest quoted string that are Bracketed: the places g
\* of their marks.
BracketedGroups ==
  {g \in 0..(EscapeGroups - 1) :
     LongestEscape(QuotedRule.escapes,
                   From(text, QuotedMarks[GroupBase(g) + 1])).esc.kind = "Bracketed"}

\* The Bracketed escape whose marks are at place g.
EscapeAt(g) ==
  LongestEscape(QuotedRule.escapes, From(text, QuotedMarks[GroupBase(g) + 1])).esc

\* The invalid_escape diagnostics of the latest emit on an escape that
\* starts at `lo`.
InvalidEscapesAt(lo) ==
  {k \in (last.diags_before + 1)..Len(diags) :
     diags[k].name = "invalid_escape" /\ diags[k].lo = lo}

\* C14 (Bracketed escape): for an escape Bracketed(open, close) in a quoted
\* string, if `open` follows the key and `close` occurs at or after the start
\* of the argument, no invalid_escape is reported on it and its marks are the
\* end of the key, the offset just past `open`, the start of the first such
\* `close` and the offset just past it; if `open` does not follow the key or
\* no `close` follows the argument start, exactly one invalid_escape is
\* reported on it.
C14_Bracketed ==
  QuotedEmitted =>
    \A g \in BracketedGroups :
      LET b == GroupBase(g)
          esc == EscapeAt(g)
          esc_start == QuotedMarks[b + 1]
          key_end == QuotedMarks[b + 2]
          has_open == StartsWith(From(text, key_end), esc.open)
          arg_start == key_end + Len(esc.open)
          off == IF has_open THEN Find(From(text, arg_start), esc.close) ELSE 0 - 1
      IN IF has_open /\ off >= 0
           THEN /\ InvalidEscapesAt(esc_start) = {}
                /\ QuotedMarks[b + 3] = arg_start
                /\ QuotedMarks[b + 4] = arg_start + off
                /\ QuotedMarks[b + 5] = arg_start + off + Len(esc.close)
         ELSE Cardinality(InvalidEscapesAt(esc_start)) = 1

\* An emit step that selects the opening side of a quoted rule and does not
\* panic.
EmitsQuoted ==
  /\ pc = "emit"
  /\ last'.set
  /\ ~last'.panic
  /\ last'.kind = "Quoted"
  /\ ~last'.best.is_close

\* The closer expected for the quoted string the step opens occurs nowhere
\* at or after the end of the opener.
CloserAbsent ==
  Find(From(text, cursor + last'.len),
       Mirrored(text, Sp(cursor, cursor + last'.len),
                Rule(rs, last'.best.lexeme), FALSE).text) < 0

\* C15 (unclosed quoted): when the closer computed for a quoted string never
\* occurs after its opener, emit reports exactly one `unclosed` diagnostic,
\* on the span of the opener, and still adds the PREFIX token, the quoted
\* token and the SUFFIX token, the quoted token ending at the end of the
\* file; the ends of the tokens stay in order.
C15_Unclosed ==
  [][(EmitsQuoted /\ CloserAbsent) =>
       /\ Len(SelectSeq(NewDiags, LAMBDA d : d.name = "unclosed")) = 1
       /\ \E k \in 1..Len(NewDiags) :
            /\ NewDiags[k].name = "unclosed"
            /\ NewDiags[k].lo = cursor
            /\ NewDiags[k].hi = cursor + last'.len
       /\ Len(NewTokens) = 3
       /\ NewTokens[1].lexeme = PREFIX
       /\ NewTokens[2].lexeme = last'.best.lexeme
       /\ NewTokens[2].meta.kind = "Quoted"
       /\ NewTokens[3].lexeme = SUFFIX
       /\ cursor <= NewTokens[1].end
       /\ NewTokens[1].end <= NewTokens[2].end
       /\ NewTokens[2].end = Len(text)
       /\ NewTokens[3].end = Len(text)
       /\ cursor' = Len(text)]_vars

\* A pass has finished on a file with an unclosed quoted string that holds
\* an escape: the stream covers the file.
C15_Witness ==
  /\ pc = "done"
  /\ QuotedEmitted
  /\ ~QuotedClosed
  /\ EscapeGroups >= 1
  /\ QuotedToken.end = Len(text)
  /\ tokens[Len(tokens)].end = Len(text)

\* The closer the opener `opener` of the bracket b calls for: the literal
\* close of a Paired bracket; for a RustLike bracket, close.0, as many copies
\* of `repeating` as the opener has between open.0 and open.1, close.1; for
\* a CxxLike bracket, close.0, the identifier the opener has between open.0
\* and open.1, close.1.
ExpectedCloser(b, opener) ==
  CASE b.kind = "Paired" -> b.close
    [] b.kind = "RustLike" ->
         b.close[1]
           \o Repeat(b.repeating,
                     (Len(opener) - Len(b.open[1]) - Len(b.open[2]))
                       \div Len(b.repeating))
           \o b.close[2]
    [] b.kind = "CxxLike" ->
         b.close[1]
           \o SubSeq(opener, Len(b.open[1]) + 1, Len(opener) - Len(b.open[2]))
           \o b.close[2]

\* The opener of the latest match and the closer it calls for.
LastOpener == Slice(text, last.start, last.start + last.len)
LastExpectedCloser == ExpectedCloser(Rule(rs, last.best.lexeme).bracket, LastOpener)

\* C16 (mirror computation): the closer emit expects for an observed opener
\* is the literal close of a Paired bracket, close.0 rep^k close.1 with the
\* count k of the opener for a RustLike bracket, and close.0 ident close.1
\* with the identifier of the opener for a CxxLike bracket.  A bracket rule
\* pushes that closer; a quoted string without escapes ends at the first
\* occurrence of that closer after the bytes of the match and, when there
\* is none, at the end of the file, whatever other closers its body holds.
C16_Mirror ==
  /\ (/\ last.set /\ ~last.panic /\ ~last.best.is_close /\ last.kind = "Bracket"
      /\ pc = "skip" /\ cursor = last.after
      /\ Len(tokens) = last.tokens_before + 1) =>
       /\ closers # <<>>
       /\ closers[Len(closers)].close = LastExpectedCloser
  /\ QuotedEmitted =>
       /\ QuotedClose = LastExpectedCloser
       /\ QuotedRule.escapes = {} =>
            LET from == last.start + last.len + last.extra
                off == Find(From(text, from), LastExpectedCloser)
            IN IF off >= 0
                 THEN /\ QuotedClosed
                      /\ QuotedToken.end = from + off + Len(LastExpectedCloser)
               ELSE /\ ~QuotedClosed
                    /\ QuotedToken.end = Len(text)

\* A RustLike string opened with one `repeating` and closed with one.
C16_Witness ==
  /\ QuotedEmitted
  /\ QuotedRule.bracket.kind = "RustLike"
  /\ last.len = Len(QuotedRule.bracket.open[1]) + Len(QuotedRule.bracket.repeating)
                  + Len(QuotedRule.bracket.open[2])
  /\ QuotedClosed
  /\ QuotedToken.end = last.start + last.len + Len(LastExpectedCloser)

\* A CxxLike string whose body holds a closer with another identifier: it
\* is not closed.
C16_WitnessCxx ==
  /\ QuotedEmitted
  /\ QuotedRule.bracket.kind = "CxxLike"
  /\ ~QuotedClosed
  /\ \E i \in last.start + last.len .. Len(text) :
       StartsWith(From(text, i), QuotedRule.bracket.close[1])
         /\ i + Len(QuotedRule.bracket.close[1]) < Len(text)

\* The latest emit added the three tokens of a number.
DigitalEmitted ==
  /\ last.set
  /\ ~last.panic
  /\ last.kind = "Digital"
  /\ ~last.best.is_close
  /\ Len(tokens) >= last.tokens_before + 3

\* The digital token of the latest emit, its rule, its chunks (the mantissa
\* and then the exponents) and the bytes of its digits.
DigitalToken == tokens[last.tokens_before + 2]
DigitalRule == Rule(rs, last.best.lexeme)
DigitalChunks == <<DigitalToken.meta.digits>> \o DigitalToken.meta.exponents
DigitalRange ==
  Sp(TokStart(last.tokens_before + 2)
       + (IF DigitalToken.meta.digits.sign.set
            THEN DigitalToken.meta.digits.sign.hi - DigitalToken.meta.digits.sign.lo
            ELSE 0),
     DigitalToken.end)

\* A block holds neither a point nor the prefix of an exponent.
PlainBlock(blk) ==
  \A i \in blk.lo..(blk.hi - 1) :
    /\ ~StartsWith(From(text, i), DigitalRule.point)
    /\ \A x \in 1..Len(DigitalRule.exps) :
         ~StartsWith(From(text, i), DigitalRule.exps[x][1])

\* The blocks of chunk c are runs separated by one point each.
PointSeparated(c) ==
  LET blocks == DigitalChunks[c].blocks
  IN /\ blocks # <<>>
     /\ \A i \in 1..Len(blocks) : blocks[i].lo <= blocks[i].hi /\ PlainBlock(blocks[i])
     /\ \A i \in 1..(Len(blocks) - 1) :
          TextOf(text, Sp(blocks[i].hi, blocks[i + 1].lo)) = DigitalRule.point

\* Chunk c + 1 is the exponent that follows chunk c: its prefix starts where
\* the last block of chunk c ends and is the prefix of the first exponent
\* rule that fits there, its sign is the longest sign of that rule that
\* follows the prefix, and its first block starts after the sign.
ExponentFollows(c) ==
  LET prev == DigitalChunks[c].blocks
      chunk == DigitalChunks[c + 1]
      fits == {x \in 1..Len(DigitalRule.exps) :
                 StartsWith(From(text, prev[Len(prev)].hi), DigitalRule.exps[x][1])}
      exp == DigitalRule.exps[chunk.which_exp + 1]
      g == LongestSign(exp[2].signs, From(text, chunk.prefix.hi))
  IN /\ fits # {}
     /\ chunk.which_exp = Min(fits) - 1
     /\ chunk.prefix.lo = prev[Len(prev)].hi
     /\ TextOf(text, chunk.prefix) = exp[1]
     /\ chunk.sign.set = (g # 0)
     /\ chunk.sign.set =>
          /\ chunk.sign.lo = chunk.prefix.hi
          /\ TextOf(text, Sp(chunk.sign.lo, chunk.sign.hi)) = exp[2].signs[g].text
          /\ chunk.sign.value = exp[2].signs[g].value
     /\ chunk.blocks[1].lo = chunk.prefix.hi
                               + (IF g = 0 THEN 0 ELSE Len(exp[2].signs[g].text))

\* The metadata rt::Digital of `1_000.5e-7`.
SampleDigital ==
  [kind |-> "Digital",
   digits |-> [prefix |-> Sp(0, 0), sign |-> NoSign,
               blocks |-> <<Sp(0, 5), Sp(6, 7)>>, which_exp |-> 0 - 1],
   exponents |-> <<[prefix |-> Sp(7, 8),
                    sign |-> [set |-> TRUE, value |-> "Negative", lo |-> 8, hi |-> 9],
                    blocks |-> <<Sp(9, 10)>>, which_exp |-> 0]>>]

\* C17 (digit block structure): in the metadata of a digital token, the
\* mantissa starts where the digits start and the last block of the last
\* chunk ends where they end; the blocks of a chunk are the runs between its
\* points, one more than the points, with separators left inside them; each
\* exponent prefix starts a new entry of exponents, in source order, with
\* which_exp the index of its rule and the longest matching sign consumed.
\* `1_000.5e-7` has the mantissa blocks `1_000` and `5` and one exponent
\* with the sign `-` and the block `7`.
C17_DigitBlocks ==
  DigitalEmitted =>
    /\ DigitalChunks[1].which_exp = 0 - 1
    /\ DigitalChunks[1].blocks # <<>>
    /\ DigitalChunks[1].blocks[1].lo = DigitalRange.lo
    /\ \A c \in 1..Len(DigitalChunks) : PointSeparated(c)
    /\ \A c \in 1..(Len(DigitalChunks) - 1) : ExponentFollows(c)
    /\ LET final == DigitalChunks[Len(DigitalChunks)].blocks
       IN final[Len(final)].hi = DigitalRange.hi
    /\ text = <<"1", "_", "0", "0", "0", ".", "5", "e", "-", "7">> =>
         DigitalToken.meta = SampleDigital

\* `1_000.5e-7` has been lexed into one digital token.
C17_Witness ==
  /\ pc = "done"
  /\ text = <<"1", "_", "0", "0", "0", ".", "5", "e", "-", "7">>
  /\ DigitalEmitted
  /\ DigitalToken.end = 10
  /\ Len(DigitalChunks) = 2
  /\ Len(DigitalChunks[1].blocks) = 2

\* The separator of the number rule stands at offset p of the file.
SeparatorAt(p) ==
  /\ DigitalRule.separator # <<>>
  /\ p >= DigitalRange.lo
  /\ p + Len(DigitalRule.separator) <= DigitalRange.hi
  /\ StartsWith(From(text, p), DigitalRule.separator)

\* An exponent of the latest number whose prefix starts at p, or whose
\* prefix and sign end at p.
ExponentStartsAt(p) ==
  \E c \in 2..Len(DigitalChunks) : DigitalChunks[c].prefix.lo = p
ExponentEndsAt(p) ==
  \E c \in 2..Len(DigitalChunks) : DigitalChunks[c].blocks[1].lo = p

\* A point of the latest number that starts at p, or ends at p: the gap
\* between two blocks of a chunk.
PointStartsAt(p) ==
  \E c \in 1..Len(DigitalChunks) : \E i \in 1..(Len(DigitalChunks[c].blocks) - 1) :
    DigitalChunks[c].blocks[i].hi = p
PointEndsAt(p) ==
  \E c \in 1..Len(DigitalChunks) : \E i \in 2..Len(DigitalChunks[c].blocks) :
    DigitalChunks[c].blocks[i].lo = p

\* The separator at p is one that corner_cases forbids.
Forbidden(p) ==
  LET cc == DigitalRule.corner_cases
      q == p + Len(DigitalRule.separator)
  IN /\ SeparatorAt(p)
     /\ \/ (~cc.prefix /\ p = DigitalRange.lo)
        \/ (~cc.around_point /\ (PointStartsAt(q) \/ PointEndsAt(p)))
        \/ (~cc.around_exp /\ (ExponentStartsAt(q) \/ ExponentEndsAt(p)))
        \/ (~cc.suffix /\ q = DigitalRange.hi)

\* A `digit separator` diagnostic is on the bytes [lo, hi).
SeparatorDiag(lo, hi) ==
  \E k \in 1..Len(diags) :
    /\ diags[k].name = "unexpected_separator"
    /\ diags[k].lo = lo
    /\ diags[k].hi = hi

\* C18 (ill-placed separators): for every separator of a digital token that
\* corner_cases forbids, at the start of the mantissa, next to a point, next
\* to an exponent prefix or at the end of the literal, a `digit separator`
\* diagnostic is reported whose span is exactly the bytes of that separator;
\* the digital token is emitted all the same.
C18_Separators ==
  DigitalEmitted =>
    \A p \in DigitalRange.lo..DigitalRange.hi :
      Forbidden(p) => SeparatorDiag(p, p + Len(DigitalRule.separator))

\* The separators after a point, after an exponent and at the end of the
\* literal are diagnosed on their own bytes.
C18_AtBlockStart ==
  DigitalEmitted =>
    \A p \in DigitalRange.lo..DigitalRange.hi :
      (Forbidden(p) /\ (PointEndsAt(p) \/ ExponentEndsAt(p)
                          \/ p + Len(DigitalRule.separator) = DigitalRange.hi))
        => SeparatorDiag(p, p + Len(DigitalRule.separator))

\* The entries passed by the calls on one side, in call order.
RECURSIVE EntriesOf(_, _)
EntriesOf(side, cs) ==
  IF cs = <<>> THEN <<>>
  ELSE (IF Head(cs).side = side THEN Head(cs).entries ELSE <<>>)
       \o EntriesOf(side, Tail(cs))

CalledOn(side) == \E k \in 1..Len(calls) : calls[k].side = side

\* C19 (affix lists): a rule on which no prefix builder was called has the
\* prefixes [""]; after one or more calls the prefixes are the entries
\* passed, in call order, the default "" being gone; the same holds for the
\* suffixes, and the calls on one side change neither the list nor the latch
\* of the other.
C19_AffixLists ==
  /\ built.has_prefixes = CalledOn("prefix")
  /\ built.has_suffixes = CalledOn("suffix")
  /\ built.prefixes = IF CalledOn("prefix") THEN EntriesOf("prefix", calls)
                      ELSE << <<>> >>
  /\ built.suffixes = IF CalledOn("suffix") THEN EntriesOf("suffix", calls)
                      ELSE << <<>> >>

\* Prefixes were added by two calls, the first of two entries, with a call
\* for a suffix between them.
C19_Witness ==
  /\ Len(calls) = 3
  /\ calls[1].side = "prefix" /\ Len(calls[1].entries) = 2
  /\ calls[2].side = "suffix"
  /\ calls[3].side = "prefix" /\ Len(calls[3].entries) = 1
  /\ Len(built.prefixes) = 3
  /\ built.has_suffixes

\* One step of the driver loop: the cursor never goes back; the loop goes on
\* to its next iteration from the closer pop, from emit or from the
\* UNEXPECTED fallback only with the cursor at least one byte further; the
\* fallback takes one whole character; the loop is left only at the end of
\* the file.
DriverStep ==
  /\ cursor' >= cursor
  /\ (pc \in {"pop", "emit", "unexpected"} /\ pc' = "skip") => cursor' > cursor
  /\ pc = "unexpected" =>
       /\ pc' = "skip"
       /\ cursor' = cursor + Len(FirstChar(From(text, cursor)))
  /\ pc' = "finish" => (pc = "skip" /\ FirstChar(From(text, cursor')) = <<>>)
  /\ (pc = "skip" /\ pc' = "pop") => cursor' < Len(text)

\* C20 (driver progress and termination): every iteration of the driver
\* loop either breaks at the end of the file or moves the cursor forward by
\* at least one byte, through the whitespace skip, the closer pop, emit or
\* the one-character UNEXPECTED fallback; so lex terminates on every file:
\* it returns.
C20_Termination ==
  /\ [][DriverStep]_vars
  /\ <>(pc = "done")

\* The part of C20 that is about the steps of the loop: every step of the
\* driver leaves the cursor where it was or further, and every way back to
\* the top of the loop has moved it.
C20_DriverProgress == [][DriverStep]_vars

\* lex is inside an emit call that does not come back: the scan of a quoted
\* string goes round at one cursor.
C20_Stuck == pc = "hang"

\* lex has returned after iterations that took each of the four ways
\* forward: whitespace, a closer, a token of a rule and the fallback.
C20_Witness ==
  /\ pc = "done"
  /\ cursor = Len(text)
  /\ \E i, j, k, l \in 1..Len(tokens) :
       /\ tokens[i].lexeme = WHITESPACE
       /\ tokens[j].lexeme = UNEXPECTED
       /\ tokens[k].lexeme >= 0 /\ tokens[k].meta.kind = "Offset"
       /\ tokens[k].meta.cursor > 0
       /\ l = k + tokens[k].meta.cursor

\* C21 (quoted finisher termination): the scan of a quoted string always
\* ends, whatever the escapes: no emit call is left in a loop that takes the
\* same escape at the same cursor for ever.
C21_QuotedTerminates == pc # "hang"

\* The scans that move the cursor at every escape end: a quoted string with
\* escapes whose keys are not empty never leaves emit in its loop.
C21_NonEmptyKeys ==
  (last.set /\ last.kind = "Quoted"
     /\ \A e \in Rule(rs, last.best.lexeme).escapes : e.key # <<>>)
    => pc # "hang"

\* The escapes of the latest quoted token that are Fixed.
FixedGroups ==
  {g \in 0..(EscapeGroups - 1) : EscapeAt(g).kind = "Fixed"}

\* The argument of the Fixed escape at place g: where it starts and ends,
\* and how many code points it holds.
FixedArgStart(g) == QuotedMarks[GroupBase(g) + 3]
FixedArgEnd(g) == QuotedMarks[GroupBase(g) + 4]
FixedCount(g) == CharCount(Slice(text, FixedArgStart(g), FixedArgEnd(g)))

\* C22 (Fixed escape): for an escape Fixed(n) in a quoted string, the
\* argument begins at the end of the key and holds at most n code points,
\* none of them at an offset where the closer of the string begins; it holds
\* fewer than n only when it stops at the closer or at the end of the file,
\* and exactly then one invalid_escape is reported on the escape, none
\* otherwise; the marks after the key are the end of the key, the end of the
\* argument and the end of the argument again.
C22_FixedEscape ==
  QuotedEmitted =>
    \A g \in FixedGroups :
      LET b == GroupBase(g)
          n == EscapeAt(g).chars
          esc_start == QuotedMarks[b + 1]
          key_end == QuotedMarks[b + 2]
      IN /\ FixedArgStart(g) = key_end
         /\ FixedArgEnd(g) >= key_end
         /\ QuotedMarks[b + 5] = FixedArgEnd(g)
         /\ FixedCount(g) <= n
         /\ \A p \in key_end..(FixedArgEnd(g) - 1) :
              ~StartsWith(From(text, p), QuotedClose)
         /\ FixedCount(g) < n =>
              \/ FixedArgEnd(g) = Len(text)
              \/ StartsWith(From(text, FixedArgEnd(g)), QuotedClose)
         /\ Cardinality(InvalidEscapesAt(esc_start))
              = (IF FixedCount(g) < n THEN 1 ELSE 0)

\* A Fixed(2) escape that took one code point and stopped at the closer,
\* with its diagnostic.
C22_Witness ==
  /\ QuotedEmitted
  /\ \E g \in FixedGroups :
       /\ EscapeAt(g).chars = 2
       /\ FixedCount(g) = 1
       /\ StartsWith(From(text, FixedArgEnd(g)), QuotedClose)
       /\ Cardinality(InvalidEscapesAt(QuotedMarks[GroupBase(g) + 1])) = 1

\* The latest emit selected the opening side of a comment rule and returned.
CommentEmitted ==
  /\ last.set
  /\ ~last.panic
  /\ last.kind = "Comment"
  /\ ~last.best.is_close
  /\ Len(tokens) >= last.tokens_before + 1

\* The comment token of the latest emit, its rule, its opener as matched,
\* its closer, and the offset where the scan of its body starts.
CommentToken == tokens[last.tokens_before + 1]
CommentRule == Rule(rs, last.best.lexeme)
CommentOpen == Slice(text, last.start, last.start + last.len)
CommentClose == CommentRule.bracket.close
CommentBody == last.start + last.len + last.extra

\* The offsets in lo..hi-1 where `lit` begins.
Occurrences(lit, lo, hi) ==
  {p \in lo..(hi - 1) : StartsWith(From(text, p), lit)}

\* The depth of the comment once the scan has read the body up to p: one,
\* and one more for every opener read when the rule nests, less one for
\* every closer read.
DepthAt(p) ==
  1 + (IF CommentRule.can_nest
         THEN Cardinality(Occurrences(CommentOpen, CommentBody, p)) ELSE 0)
    - Cardinality(Occurrences(CommentClose, CommentBody, p))

\* The offsets just past a closer that brings the depth to 0.
ClosingEnds ==
  {p \in (CommentBody + 1)..Len(text) :
     /\ DepthAt(p) = 0
     /\ StartsWith(From(text, p - Len(CommentClose)), CommentClose)}

\* The `unclosed` diagnostics the comment arm of the latest emit reported.
CommentUnclosed ==
  {k \in (last.diags_before + 1)..Len(diags) :
     /\ diags[k].name = "unclosed"
     /\ diags[k].site = "comment"
     /\ diags[k].lo = last.start}

\* C23 (comment depth): the comment ends at the first closer at which the
\* depth, 1 after the opener, one more for every further opener of a nesting
\* comment and one less for every closer, comes to 0, which without nesting
\* is the first closer; a comment closed so reports no `unclosed`; with no
\* such closer the token reaches the end of the file and exactly one
\* `unclosed` is reported, none when the closer is the newline.
C23_CommentDepth ==
  CommentEmitted =>
    /\ CommentToken.lexeme = last.best.lexeme
    /\ IF ClosingEnds # {}
         THEN /\ CommentToken.end
                   = Min(ClosingEnds) - (IF CommentClose = <<"\n">> THEN 1 ELSE 0)
              /\ CommentUnclosed = {}
         ELSE /\ CommentToken.end = Len(text)
              /\ Cardinality(CommentUnclosed)
                   = (IF CommentClose = <<"\n">> THEN 0 ELSE 1)

\* A nesting comment that holds a comment and ends at the closer of the
\* outer one.
C23_Witness ==
  /\ CommentEmitted
  /\ CommentRule.can_nest
  /\ Occurrences(CommentOpen, CommentBody, CommentToken.end) # {}
  /\ ClosingEnds # {}
  /\ CommentToken.end = Len(text)

\* A nesting comment left open at the end of the file by a closer too few.
C23_WitnessUnclosed ==
  /\ CommentEmitted
  /\ CommentRule.can_nest
  /\ Occurrences(CommentClose, CommentBody, Len(text)) # {}
  /\ ClosingEnds = {}
  /\ Cardinality(CommentUnclosed) = 1

\* The latest emit is of a comment whose closer is the newline, and the
\* newlines of its body.
LineCommentEmitted == CommentEmitted /\ CommentClose = <<"\n">>
BodyNewlines == Occurrences(<<"\n">>, CommentBody, Len(text))

\* C24 (line-comment newline): the token of a comment closed by "\n" ends
\* just before the first newline of its body, and emit leaves the cursor on
\* that newline; with no newline before the end of the file the token ends
\* at the end of the file; in neither case is `unclosed` reported for it.
C24_LineComment ==
  LineCommentEmitted =>
    /\ CommentUnclosed = {}
    /\ IF BodyNewlines # {}
         THEN /\ CommentToken.end = Min(BodyNewlines)
              /\ last.after = CommentToken.end
              /\ StartsWith(From(text, last.after), <<"\n">>)
         ELSE /\ CommentToken.end = Len(text)
              /\ last.after = Len(text)

\* A line comment with a body, ended by a newline that is not the last byte
\* of the file, just after its emit.
C24_Witness ==
  /\ LineCommentEmitted
  /\ pc = "skip"
  /\ cursor = last.after
  /\ BodyNewlines # {}
  /\ CommentToken.end > CommentBody
  /\ CommentToken.end + 1 < Len(text)

\* A line comment that runs to the end of the file.
C24_WitnessEof ==
  /\ LineCommentEmitted
  /\ BodyNewlines = {}
  /\ CommentToken.end = Len(text)
  /\ CommentToken.end > CommentBody

\* The radix of the digits of chunk c of the latest digital token: of the
\* mantissa for the first, of the rule of its exponent for the others.
ChunkRadix(c) ==
  IF c = 1 THEN DigitalRule.mant.radix
  ELSE DigitalRule.exps[DigitalChunks[c].which_exp + 1][2].radix

\* C25 (digit machine step order): the replay that emits a digital token
\* tries a digit of the current radix before an exponent prefix, as the
\* replay that validates it does, so that the character at which an exponent
\* chunk of the token starts is not a digit of the radix of the chunk before
\* it.
C25_DigitBeforeExponent ==
  DigitalEmitted =>
    \A c \in 2..Len(DigitalChunks) :
      ~is_digit(FirstChar(From(text, DigitalChunks[c].prefix.lo)),
                ChunkRadix(c - 1))

\* The latest emit had one candidate, of a digital rule: the text of the
\* match, which the 'verify loop replays, and the rule.
DigitalCandidate ==
  /\ last.set
  /\ last.kind = "Digital"
  /\ Cardinality(last.candidates) = 1
MatchText == Slice(text, last.start, last.start + last.len)

\* s holds the literal `lit` somewhere.
Holds(s, lit) == \E i \in 0..(Len(s) - Len(lit)) : StartsWith(From(s, i), lit)

\* A character of the match that is neither the separator, the point, a
\* digit of a radix of the rule nor the start of an exponent prefix.
OutOfAlphabet ==
  \E i \in 0..(Len(MatchText) - 1) :
    LET c == FirstChar(From(MatchText, i))
    IN /\ IsCharBoundary(MatchText, i)
       /\ ~StartsWith(From(MatchText, i), DigitalRule.point)
       /\ ~(DigitalRule.separator # <<>>
              /\ StartsWith(From(MatchText, i), DigitalRule.separator))
       /\ ~is_digit(c, MaxRadix(DigitalRule))
       /\ \A x \in 1..Len(DigitalRule.exps) :
            ~StartsWith(From(MatchText, i), DigitalRule.exps[x][1])

\* A separator where corner_cases.prefix, around_point or around_exp
\* forbids it: at the start of the match, next to a point, next to an
\* exponent prefix that is not a digit.
SeparatorInside ==
  LET sep == DigitalRule.separator
      cc == DigitalRule.corner_cases
  IN /\ sep # <<>>
     /\ \/ (~cc.prefix /\ StartsWith(MatchText, sep))
        \/ (~cc.around_point
              /\ (Holds(MatchText, sep \o DigitalRule.point)
                    \/ Holds(MatchText, DigitalRule.point \o sep)))
        \/ (~cc.around_exp
              /\ \E x \in 1..Len(DigitalRule.exps) :
                   LET pre == DigitalRule.exps[x][1]
                   IN /\ ~is_digit(FirstChar(pre), MaxRadix(DigitalRule))
                      /\ (Holds(MatchText, sep \o pre) \/ Holds(MatchText, pre \o sep)))

\* A separator where corner_cases.suffix forbids it: at the end of the match.
SeparatorAtEnd ==
  /\ DigitalRule.separator # <<>>
  /\ ~DigitalRule.corner_cases.suffix
  /\ EndsWith(MatchText, DigitalRule.separator)

\* The 'verify loop rejects what holds a character out of the alphabet or a
\* separator forbidden at the start, at a point or at an exponent.
C26_RejectsInside ==
  (DigitalCandidate /\ (OutOfAlphabet \/ SeparatorInside)) => ~last.verified

\* C26 (digital validation): a digital candidate does not pass validation
\* when its text holds a character that is no separator, point, digit or
\* exponent prefix, or a separator at a place that corner_cases.prefix,
\* around_point, around_exp or suffix forbids.
C26_Validation ==
  (DigitalCandidate /\ (OutOfAlphabet \/ SeparatorInside \/ SeparatorAtEnd))
    => ~last.verified

\* An emit step whose 'verify loop found every candidate in error, and that
\* returned.
EmitsFallback ==
  pc = "emit" /\ last'.set /\ ~last'.verified /\ ~last'.panic

\* The names of the diagnostics that tell what is wrong with a candidate:
\* those of identifiers and of numbers.
CandidateErrors ==
  {"ident_too_small", "non_ascii_in_ident", "unexpected_separator",
   "unexpected_digit", "expected", "expected_points"}

\* When no candidate passes the 'verify loop, emit takes the first of the
\* sorted candidates and adds tokens for it, so that the cursor moves on.
C27_FallbackFirst ==
  [][EmitsFallback =>
       /\ last'.best = SortCandidates(last'.candidates)[1]
       /\ Len(tokens') > Len(tokens)
       /\ cursor' >= cursor + last'.len
       /\ cursor' > cursor]_vars

\* C27 (validation fallback): when no candidate of the longest match passes
\* validation, emit takes the first candidate of the sorted list, adds
\* tokens for the match so that the cursor moves on, and reports at least
\* one diagnostic that tells what is wrong with that candidate.
C27_Fallback ==
  [][EmitsFallback =>
       /\ last'.best = SortCandidates(last'.candidates)[1]
       /\ Len(tokens') > Len(tokens)
       /\ cursor' > cursor
       /\ \E k \in 1..Len(NewDiags) : NewDiags[k].name \in CandidateErrors]_vars

\* The latest emit selected an identifier rule and returned.
IdentEmitted ==
  /\ last.set
  /\ ~last.panic
  /\ last.kind = "Ident"
  /\ Len(tokens) >= last.tokens_before + 3

\* The rule of that identifier, and the lengths of its affixes: of the
\* longest declared prefix the match starts with, and of the longest
\* declared suffix that what is left of the match ends with.
IdentRule == Rule(rs, last.best.lexeme)
PrefixLen ==
  Max({Len(IdentRule.affixes.prefixes[i]) :
         i \in {j \in 1..Len(IdentRule.affixes.prefixes) :
                  StartsWith(MatchText, IdentRule.affixes.prefixes[j])}})
SuffixLen ==
  Max({Len(IdentRule.affixes.suffixes[i]) :
         i \in {j \in 1..Len(IdentRule.affixes.suffixes) :
                  EndsWith(From(MatchText, PrefixLen),
                           IdentRule.affixes.suffixes[j])}})

\* C28 (identifier emission): the emit of an identifier adds the tokens
\* PREFIX, the lexeme of the identifier and SUFFIX, in this order and one
\* after the other from the start of the match, as long as the prefix, the
\* body and the suffix of the match, PREFIX and SUFFIX being empty when the
\* affix is, so that the three end where the match ends; the only token that
\* can follow them in the same emit is the UNEXPECTED run of XID characters.
C28_IdentTokens ==
  IdentEmitted =>
    LET b == last.tokens_before
    IN /\ TokStart(b + 1) = last.start
       /\ tokens[b + 1].lexeme = PREFIX
       /\ tokens[b + 1].end = last.start + PrefixLen
       /\ tokens[b + 2].lexeme = last.best.lexeme
       /\ tokens[b + 2].end = last.start + last.len - SuffixLen
       /\ tokens[b + 3].lexeme = SUFFIX
       /\ tokens[b + 3].end = last.start + last.len
       /\ (pc = "skip" /\ cursor = last.after) =>
            \/ Len(tokens) = b + 3
            \/ (Len(tokens) = b + 4 /\ tokens[b + 4].lexeme = UNEXPECTED)

\* An identifier with a prefix, a body and a suffix, none of them empty.
C28_Witness ==
  /\ IdentEmitted
  /\ PrefixLen > 0
  /\ SuffixLen > 0
  /\ last.len > PrefixLen + SuffixLen
  /\ tokens[last.tokens_before + 2].end - tokens[last.tokens_before + 1].end
       = last.len - PrefixLen - SuffixLen

\* The latest emit split its match by the affixes of an identifier or of a
\* number.
AffixesSplit ==
  /\ last.set
  /\ last.kind \in {"Ident", "Digital"}
  /\ ~last.affixes.bug

\* The length of the longest entry of `list` that s starts with, and that s
\* ends with; 0 when there is none.
LongestAtStart(s, list) ==
  MaxOrZero({Len(list[i]) : i \in {j \in 1..Len(list) : StartsWith(s, list[j])}})
LongestAtEnd(s, list) ==
  MaxOrZero({Len(list[i]) : i \in {j \in 1..Len(list) : EndsWith(s, list[j])}})

\* The lengths of the sign, the prefix and the suffix of the match, from the
\* text of the match and the lists of the rule.
SplitRule == Rule(rs, last.best.lexeme)
SplitSign ==
  IF last.kind = "Digital"
    THEN LongestAtStart(MatchText, SignTexts(SplitRule.mant.signs)) ELSE 0
SplitPrefix ==
  LongestAtStart(From(MatchText, SplitSign), SplitRule.affixes.prefixes)
SplitSuffix ==
  LongestAtEnd(From(MatchText, SplitSign + SplitPrefix), SplitRule.affixes.suffixes)

\* C29 (affix stripping): the spans emit gets for the match of an
\* identifier or of a number are the longest declared prefix the text
\* starts with, then the longest declared suffix the rest ends with, and the
\* body between them; for a number the longest mantissa sign the match
\* starts with comes first.  They follow one another without gap or overlap
\* from the start of the match to its end: [sign][prefix][body][suffix].
C29_AffixPartition ==
  AffixesSplit =>
    LET a == last.affixes
        lo == last.start + SplitSign
    IN /\ (last.kind = "Digital") =>
            (a.sign.lo = last.start /\ a.sign.hi = lo)
       /\ (last.kind = "Ident") => (a.sign.lo = a.sign.hi)
       /\ a.prefix.lo = lo
       /\ a.prefix.hi = lo + SplitPrefix
       /\ a.range.lo = a.prefix.hi
       /\ a.range.lo <= a.range.hi
       /\ a.range.hi = a.suffix.lo
       /\ a.suffix.hi - a.suffix.lo = SplitSuffix
       /\ a.suffix.hi = last.start + last.len

\* A number with a sign, a prefix and a body.
C29_Witness ==
  /\ AffixesSplit
  /\ last.kind = "Digital"
  /\ SplitSign > 0
  /\ SplitPrefix > 0
  /\ last.affixes.range.hi > last.affixes.range.lo

\* An identifier with a prefix, a body and a suffix.
C29_WitnessIdent ==
  /\ AffixesSplit
  /\ last.kind = "Ident"
  /\ SplitPrefix > 0
  /\ SplitSuffix > 0
  /\ last.affixes.range.hi > last.affixes.range.lo

\* The latest emit is of a number whose match has a sign and a prefix.
SignedPrefixed ==
  /\ DigitalEmitted
  /\ ~last.affixes.bug
  /\ SpLen(last.affixes.sign) > 0
  /\ SpLen(last.affixes.prefix) > 0

\* The bytes a token of the stream covers.
TokSpan(i) == Sp(TokStart(i), tokens[i].end)

\* C30 (digital pseudo-token ranges): for a number with a sign and a
\* prefix, the PREFIX token added before the token of the number covers the
\* bytes of the prefix, which are the ones recorded as the prefix of the
\* mantissa in the metadata, and the SUFFIX token covers the suffix.
C30_PseudoTokens ==
  SignedPrefixed =>
    LET b == last.tokens_before
    IN /\ tokens[b + 1].lexeme = PREFIX
       /\ TokSpan(b + 1) = last.affixes.prefix
       /\ TokSpan(b + 1) = DigitalToken.meta.digits.prefix
       /\ tokens[b + 2].lexeme = last.best.lexeme
       /\ tokens[b + 3].lexeme = SUFFIX
       /\ TokSpan(b + 3) = last.affixes.suffix

\* The three tokens of a number are as long as its prefix, its sign and
\* body, and its suffix, and end where the match ends.
C30_Lengths ==
  DigitalEmitted /\ ~last.affixes.bug =>
    LET b == last.tokens_before
        a == last.affixes
    IN /\ TokStart(b + 1) = last.start
       /\ SpLen(TokSpan(b + 1)) = SpLen(a.prefix)
       /\ SpLen(TokSpan(b + 2)) = SpLen(a.sign) + SpLen(a.range)
       /\ SpLen(TokSpan(b + 3)) = SpLen(a.suffix)
       /\ tokens[b + 3].end = last.start + last.len

\* The ident_too_small and non_ascii_in_ident diagnostics the identifier arm
\* of the latest emit reported.
IdentArmDiags ==
  {k \in (last.diags_before + 1)..Len(diags) :
     /\ diags[k].site = "ident"
     /\ diags[k].lo >= last.start
     /\ diags[k].lo < last.start + last.len}

\* C31 (validation and emission agree for identifiers): when the candidate
\* emit chose is an identifier rule that passed validation, the emission of
\* the identifier reports neither ident_too_small nor non_ascii_in_ident.
C31_IdentAgreement ==
  (IdentEmitted /\ last.verified) => IdentArmDiags = {}

\* The two agree on identifiers without affixes, where the text of the match
\* is the body.
C31_NoAffixes ==
  (IdentEmitted /\ last.verified /\ PrefixLen = 0 /\ SuffixLen = 0)
    => IdentArmDiags = {}

\* The latest emit chose a rule with a CxxLike bracket and returned; the
\* identifier rule of the bracket.
CxxEmitted ==
  /\ last.set
  /\ ~last.panic
  /\ last.kind \in {"Bracket", "Comment", "Quoted"}
  /\ Rule(rs, last.best.lexeme).bracket.kind = "CxxLike"
CxxIdentRule == Rule(rs, last.best.lexeme).bracket.ident_rule

\* The diagnostics that emit reported on the name of the bracket while it
\* computed the mirror.
CxxNameDiags ==
  {k \in (last.diags_before + 1)..Len(diags) :
     /\ diags[k].site = "mirror"
     /\ diags[k].lo >= last.start
     /\ diags[k].hi <= last.start + last.len}

\* C32 (ASCII-only applies only when declared): for a rule with a CxxLike
\* bracket, non_ascii_in_ident is reported on the name only when the
\* identifier rule of the bracket is ascii_only, and a candidate that passed
\* validation gets neither ident_too_small nor non_ascii_in_ident when its
\* mirror is computed.
C32_AsciiOnlyDeclared ==
  CxxEmitted =>
    /\ ~CxxIdentRule.ascii_only =>
         \A k \in CxxNameDiags : diags[k].name # "non_ascii_in_ident"
    /\ last.verified => CxxNameDiags = {}

\* On names of ASCII characters a candidate that passed validation gets no
\* diagnostic from the mirror.
C32_AsciiNames ==
  (CxxEmitted /\ last.verified
     /\ \A i \in last.start..(last.start + last.len - 1) :
          text[i + 1] \notin LeadBytes \cup ContBytes)
    => CxxNameDiags = {}

\* An emit step that returns with the opening side of a rule, and the text
\* of its match; a step that emits a cancel: a match of a LineEnd rule that
\* is not the newline.
EmitsToken == pc = "emit" /\ last'.set /\ ~last'.panic /\ ~last'.best.is_close
StepMatch == Slice(text, cursor, cursor + last'.len)
EmitsCancel == EmitsToken /\ last'.kind = "LineEnd" /\ StepMatch # <<"\n">>

\* The diagnostics of the latest step that report a cancel.
CancelDiags == {k \in 1..Len(NewDiags) : NewDiags[k].site = "cancel"}

\* A step that adds a token that is neither whitespace, nor a comment, nor
\* the newline of a LineEnd rule: an emit that returns with the opening side
\* of a rule that is not a comment or with an unopened closer, or the
\* fallback of the driver.
EmitsSignificant ==
  \/ /\ pc = "emit" /\ last'.set /\ ~last'.panic
     /\ (last'.best.is_close \/ last'.kind # "Comment")
     /\ ~(last'.kind = "LineEnd" /\ StepMatch = <<"\n">>)
  \/ pc = "unexpected"

\* What a step does with a latch that is set when it reports it: one
\* `unexpected` at the span of the latch, and the latch cleared, the latch
\* of a new cancel replacing it.
ReportsCancel ==
  /\ Cardinality(CancelDiags) = 1
  /\ \A k \in CancelDiags :
       /\ NewDiags[k].name = "unexpected"
       /\ NewDiags[k].lo = line_end_cancel.lo
       /\ NewDiags[k].hi = line_end_cancel.hi
  /\ ~EmitsCancel => ~line_end_cancel'.set

\* C33 (line-end cancel latch): the match of a LineEnd rule that is not the
\* newline adds a WHITESPACE token and sets the latch to its span.  While
\* the latch is set, a comment leaves it as it is and reports nothing of
\* it; the first token that is not a comment, other than the newline,
\* reports one `unexpected` at the span of the latch and clears it;
\* whitespace that reaches the newline clears the latch without a
\* diagnostic, and no step reports a cancel when the latch is not set.
C33_CancelLatch ==
  [][/\ EmitsCancel =>
          /\ NewTokens # <<>>
          /\ NewTokens[1].lexeme = WHITESPACE
          /\ NewTokens[1].end = cursor + last'.len
          /\ line_end_cancel' = SomeSpan(Sp(cursor, cursor + last'.len))
     /\ (EmitsToken /\ line_end_cancel.set /\ last'.kind = "Comment") =>
          /\ line_end_cancel' = line_end_cancel
          /\ CancelDiags = {}
     /\ (EmitsSignificant /\ line_end_cancel.set) => ReportsCancel
     /\ (pc = "skip" /\ line_end_cancel.set) =>
          /\ CancelDiags = {}
          /\ line_end_cancel'.set
               = ~(cursor' > cursor /\ text[cursor'] = "\n")
     /\ ~line_end_cancel.set =>
          /\ CancelDiags = {}
          /\ line_end_cancel'.set => EmitsCancel]_vars

\* The tokens that skip the latch: an unopened closer or a character of the
\* fallback has been added after a cancel, and the latch is still set with
\* nothing reported at its span.
C33_LatchKept ==
  /\ line_end_cancel.set
  /\ tokens # <<>>
  /\ tokens[Len(tokens)].lexeme = UNEXPECTED
  /\ TokStart(Len(tokens)) >= line_end_cancel.hi
  /\ \A k \in 1..Len(diags) : diags[k].site # "cancel"

\* The part of C33 that is about the opening side of the rules: the match
\* of a LineEnd rule that is not the newline adds a WHITESPACE token and
\* sets the latch to its span.  While the latch is set, the emit of a
\* comment leaves it as it is and reports nothing of it; the emit of the
\* opening side of any other rule reports one `unexpected` at the span of
\* the latch and clears it, the latch of a new cancel replacing it; no step
\* reports a cancel when the latch is not set.
C33_OpeningSide ==
  [][/\ EmitsCancel =>
          /\ NewTokens # <<>>
          /\ NewTokens[1].lexeme = WHITESPACE
          /\ NewTokens[1].end = cursor + last'.len
          /\ line_end_cancel' = SomeSpan(Sp(cursor, cursor + last'.len))
     /\ (EmitsToken /\ line_end_cancel.set /\ last'.kind = "Comment") =>
          /\ line_end_cancel' = line_end_cancel
          /\ CancelDiags = {}
     /\ (EmitsToken /\ line_end_cancel.set /\ last'.kind # "Comment") =>
          /\ Cardinality(CancelDiags) = 1
          /\ \A k \in CancelDiags :
               /\ NewDiags[k].name = "unexpected"
               /\ NewDiags[k].lo = line_end_cancel.lo
               /\ NewDiags[k].hi = line_end_cancel.hi
          /\ ~EmitsCancel => ~line_end_cancel'.set
     /\ ~line_end_cancel.set =>
          /\ CancelDiags = {}
          /\ line_end_cancel'.set => EmitsCancel]_vars

\* A cancel and then an identifier or a string, just after its emit: the
\* cancel has been reported at the WHITESPACE token it became and the latch
\* is clear.
C33_Witness ==
  /\ last.set
  /\ last.kind \in {"Ident", "Quoted"}
  /\ pc = "skip"
  /\ cursor = last.after
  /\ ~line_end_cancel.set
  /\ \E k \in (last.diags_before + 1)..Len(diags), i \in 1..last.tokens_before :
       /\ diags[k].site = "cancel"
       /\ diags[k].name = "unexpected"
       /\ tokens[i].lexeme = WHITESPACE
       /\ tokens[i].end = diags[k].hi
       /\ TokStart(i) = diags[k].lo

\* A cancel followed by its newline: the latch is clear and nothing was
\* reported.
C33_WitnessNewline ==
  /\ rs = 3
  /\ pc = "done"
  /\ text = <<"\\", "\n", "a">>
  /\ diags = <<>>
  /\ ~line_end_cancel.set

\* An emit step that returns, and the diagnostics it reports on a run of
\* XID characters after its token.
EmitReturns == pc = "emit" /\ last'.set /\ ~last'.panic
XidDiags == {k \in 1..Len(NewDiags) : NewDiags[k].site = "xid"}

\* C34 (trailing XID run): emit reports at most one run of XID characters
\* after its tokens.  The run reported is not empty, starts just after an
\* XID character, holds XID characters only and ends where the next
\* character is none or the file ends; it is the last token emit adds, an
\* UNEXPECTED token over exactly the run, and the extra_chars diagnostic
\* covers exactly the run.  When none is reported, emit has not left the
\* cursor between two XID characters, and the opening side of a rule has
\* added no UNEXPECTED token.
C34_TrailingXid ==
  [][EmitReturns =>
       /\ Cardinality(XidDiags) <= 1
       /\ ~InsideXids(cursor')
       /\ \A k \in XidDiags :
            LET d == NewDiags[k]
                n == Len(tokens')
            IN /\ d.name = "extra_chars"
               /\ d.lo < d.hi
               /\ d.hi = cursor'
               /\ InsideXids(d.lo)
               /\ XidRun(From(text, d.lo)) = d.hi - d.lo
               /\ Len(NewTokens) >= 2
               /\ tokens'[n].lexeme = UNEXPECTED
               /\ tokens'[n].end = d.hi
               /\ tokens'[n - 1].end = d.lo
       /\ (XidDiags = {} /\ ~last'.best.is_close) =>
            \A i \in 1..Len(NewTokens) : NewTokens[i].lexeme # UNEXPECTED]_vars

\* A run of two XID characters or more after a token, taken as one
\* UNEXPECTED token.
C34_Witness ==
  /\ last.set
  /\ ~last.panic
  /\ last.xids >= 2
  /\ pc = "skip"
  /\ cursor = last.after
  /\ tokens[Len(tokens)].lexeme = UNEXPECTED
  /\ tokens[Len(tokens)].end = cursor
  /\ Len(tokens) >= 2
  /\ tokens[Len(tokens) - 1].end = cursor - last.xids

\* The three encodings of a span.
AtomicReal(s) == s.start >= 0 /\ s.end < 0
FusedSpan(s) == s.start >= 0 /\ s.end >= 0
SyntheticSpan(s) == s.start < 0

\* C35 (span encoding): every span handed out is exactly one of atomic
\* real, fused or synthetic.  Span::end is None for an atomic and for a
\* synthetic span, and for a fused span the atomic real span whose ID is
\* the end, which is never synthetic and is an ID of the table of ranges.
\* The index of a real span is its start, in the table of ranges; the index
\* of a synthetic span is the complement of its start, in the table of
\* synthetic texts, and a synthetic span has no range while a real span has
\* one.
C35_SpanEncoding ==
  \A s \in AllSpans :
    /\ Cardinality({k \in {"atomic", "fused", "synthetic"} :
                      \/ k = "atomic" /\ AtomicReal(s)
                      \/ k = "fused" /\ FusedSpan(s)
                      \/ k = "synthetic" /\ SyntheticSpan(s)}) = 1
    /\ is_synthetic(s) <=> SyntheticSpan(s)
    /\ SyntheticSpan(s) =>
         /\ s.end < 0
         /\ ~SpanEnd(s).some
         /\ SpanIndex(s) = (0 - s.start) - 1
         /\ SpanIndex(s) + 1 \in DOMAIN synthetics
         /\ ~lookup_range(Ctx, s).some
         /\ SpanText(s, Ctx) = synthetics[0 - s.start]
    /\ AtomicReal(s) =>
         /\ ~SpanEnd(s).some
         /\ SpanIndex(s) = s.start
         /\ SpanIndex(s) + 1 \in DOMAIN ranges
         /\ lookup_range(Ctx, s).some
         /\ lookup_range(Ctx, s).lo = ranges[s.start + 1].lo
         /\ lookup_range(Ctx, s).hi = ranges[s.start + 1].hi
    /\ FusedSpan(s) =>
         /\ SpanEnd(s).some
         /\ SpanEnd(s).span = Span(s.end, 0 - 1)
         /\ AtomicReal(SpanEnd(s).span)
         /\ ~is_synthetic(SpanEnd(s).span)
         /\ SpanIndex(SpanEnd(s).span) = s.end
         /\ s.start + 1 \in DOMAIN ranges
         /\ s.end + 1 \in DOMAIN ranges
         /\ lookup_range(Ctx, s).some

\* The real span and the synthetic span of ID 0, and a fused span whose two
\* halves differ.
C35_Witness ==
  /\ Span(0, 0 - 1) \in AllSpans
  /\ Span(0 - 1, 0 - 1) \in AllSpans
  /\ \E s \in AllSpans : FusedSpan(s) /\ s.start # s.end

\* A thread holds a Comments value; another waits for the exclusive lock.
HoldsComments(t) == th[t].pc \in {"iter", "look"}
WriterWaits == \E u \in Threads : th[u].pc = "write_wait"

\* C36 (no deadlock on the context lock): a thread that holds a Comments
\* value and iterates it with as_strings always completes, whatever the
\* other threads do.
C36_NoDeadlock ==
  \A t \in Threads : HoldsComments(t) ~> (th[t].pc = "done")

\* Where readers are let in over a waiting writer, the iteration does
\* complete.
C36_ReadersFirst ==
  \A t \in Threads :
    (policy = "readers_first" /\ HoldsComments(t)) ~> (th[t].pc = "done")

\* The lock is never held both ways, and the read guards out are those of
\* the Comments values and of the lookups under way.
C36_Guards ==
  /\ ~(rwlock.writer /\ rwlock.readers > 0)
  /\ rwlock.readers
       = Cardinality({t \in Threads : HoldsComments(t)})
           + Cardinality({t \in Threads : th[t].pc = "look"})
  /\ rwlock.writer <=> \E t \in Threads : th[t].pc = "write"

\* A thread is stopped inside as_strings with spans left, behind a writer
\* that waits for the thread's own guard.
C36_Stuck ==
  \E t \in Threads :
    /\ th[t].pc = "iter"
    /\ th[t].left > 0
    /\ WriterWaits
    /\ ~CanRead
    /\ ~CanWrite

\* The length word n is below usize::MAX / 4 = 2^62 - 1: its two highest
\* bits are clear and it is not sixty-two ones.
BelowQuarter(n) ==
  \/ n[WordBytes] < 63
  \/ n[WordBytes] = 63 /\ \E i \in 1..(WordBytes - 1) : n[i] # 255

\* from_ptr_len_tag was called with a tag that is not SMALL and, for
\* ALIASED, a length that is not zero.
PackCall ==
  /\ yarn.op = "from_ptr_len_tag"
  /\ yarn.tag \in {STATIC, HEAP, ALIASED}
  /\ yarn.tag = ALIASED => yarn.len # Usize(0)

\* C37 (yarn tag/length packing): from_ptr_len_tag(ptr, n, t) with t one of
\* STATIC, HEAP and ALIASED and n < usize::MAX / 4 (n not 0 for ALIASED)
\* returns a yarn with kind() = t and len() = n: the two highest bits of
\* the length word are the tag, the other bits are the length, and the
\* pointer word is the pointer.  A length of usize::MAX / 4 or more is
\* rejected by the assertion.
C37_Packing ==
  PackCall =>
    IF BelowQuarter(yarn.len)
      THEN /\ yarn.res.some
           /\ ~yarn.res.panic
           /\ ~yarn.res.debug
           /\ RawYarn_kind(yarn.res.y) = yarn.tag
           /\ RawYarn_len(yarn.res.y) = yarn.len
           /\ LenWord(yarn.res.y)[WordBytes] \div 64 = yarn.tag
           /\ LenWord(yarn.res.y)[WordBytes] % 64 = yarn.len[WordBytes]
           /\ \A i \in 1..(WordBytes - 1) : LenWord(yarn.res.y)[i] = yarn.len[i]
           /\ PtrOf(yarn.res.y) = PtrWord(InputPtr)
    ELSE yarn.res.panic /\ ~yarn.res.some

\* The greatest length that is accepted was packed with the tag HEAP, whose
\* bits differ.
C37_Witness ==
  /\ PackCall
  /\ yarn.tag = HEAP
  /\ yarn.len = <<254, 255, 255, 255, 255, 255, 255, 63>>
  /\ yarn.res.some
  /\ RawYarn_kind(yarn.res.y) = HEAP

\* The least length that is rejected.
C37_WitnessRejected ==
  /\ PackCall
  /\ yarn.len = <<255, 255, 255, 255, 255, 255, 255, 63>>
  /\ yarn.res.panic

\* A constructor of the list returned a yarn.
Built ==
  /\ yarn.op \in {"new", "alias_slice", "copy_slice", "from_heap", "concat",
                  "from_char", "from_byte", "from_fmt_args"}
  /\ yarn.res.some

\* The constructors that alias or own a buffer when they do not store the
\* bytes inline.
BuffersInline ==
  yarn.op \in {"alias_slice", "copy_slice", "from_heap", "concat"}

\* C38 (yarn length word is never zero): the length word of every yarn
\* returned by new, alias_slice, copy_slice, from_heap, concat, from_char,
\* from_byte and from_fmt_args is not zero, and no assertion of a debug
\* build fails on the way.  A yarn of kind ALIASED has a length that is
\* not zero; a yarn of kind ALIASED or HEAP has the length of its input,
\* which is above SSO_LEN, since alias_slice, copy_slice, from_heap and
\* concat store an input of SSO_LEN bytes or fewer inline as SMALL.
C38_NonZeroLength ==
  Built =>
    /\ LenWord(yarn.res.y) # Usize(0)
    /\ \E i \in 1..WordBytes : LenWord(yarn.res.y)[i] > 0
    /\ ~yarn.res.debug
    /\ RawYarn_kind(yarn.res.y) = ALIASED =>
         RawYarn_len(yarn.res.y) # Usize(0)
    /\ RawYarn_kind(yarn.res.y) \in {ALIASED, HEAP} =>
         /\ Len(yarn.s) > SSO_LEN
         /\ RawYarn_len(yarn.res.y) = Usize(Len(yarn.s))
    /\ (BuffersInline /\ Len(yarn.s) <= SSO_LEN) =>
         RawYarn_kind(yarn.res.y) = SMALL

\* alias_slice of the empty slice, which a yarn of kind ALIASED cannot
\* hold: the yarn is SMALL.
C38_Witness ==
  /\ Built
  /\ yarn.op = "alias_slice"
  /\ yarn.s = <<>>
  /\ RawYarn_kind(yarn.res.y) = SMALL
  /\ RawYarn_len(yarn.res.y) = Usize(0)

\* alias_slice of a slice one byte too long to be inline: ALIASED.
C38_WitnessAliased ==
  /\ Built
  /\ yarn.op = "alias_slice"
  /\ Len(yarn.s) = SSO_LEN + 1
  /\ RawYarn_kind(yarn.res.y) = ALIASED

\* from_slice_inlined was called on the bytes yarn.s with an alignment it
\* accepts.
InlineCall ==
  /\ yarn.op = "from_slice_inlined"
  /\ yarn.align <= WordBytes

\* C39 (inline round trip): from_slice_inlined of n <= SSO_LEN bytes
\* returns Some yarn with kind() = SMALL, len() = n, as_slice() the bytes
\* given and every data byte above n zero; it returns None exactly when
\* n > SSO_LEN; and the overlapping loads of the 64-bit specialization give
\* the sixteen bytes that the bytewise loop gives.
C39_InlineRoundTrip ==
  InlineCall =>
    IF Len(yarn.s) <= SSO_LEN
      THEN /\ yarn.res.some
           /\ ~yarn.res.panic
           /\ RawYarn_kind(yarn.res.y) = SMALL
           /\ RawYarn_len(yarn.res.y) = Usize(Len(yarn.s))
           /\ RawYarn_as_slice(yarn.res.y, yarn.res.mem) = yarn.s
           /\ \A i \in 1..SSO_LEN :
                yarn.res.y[i] = IF i <= Len(yarn.s) THEN yarn.s[i] ELSE 0
           /\ InlineWordLoads(InputMem(yarn.s), InputPtr, Len(yarn.s))
                = InlineBytewise(InputMem(yarn.s), InputPtr, Len(yarn.s))
           /\ yarn.res.y = InlineBytewise(InputMem(yarn.s), InputPtr, Len(yarn.s))
    ELSE ~yarn.res.some /\ ~yarn.res.panic

\* A slice of SSO_LEN bytes that all differ was stored inline.
C39_Witness ==
  /\ InlineCall
  /\ yarn.s = Ramp(SSO_LEN, 0)
  /\ yarn.res.some
  /\ RawYarn_as_slice(yarn.res.y, yarn.res.mem) = yarn.s

\* Slices of each of the three kinds of loads, and of no load.
C39_WitnessThree == InlineCall /\ yarn.res.some /\ yarn.s = Ramp(3, 240)
C39_WitnessFive == InlineCall /\ yarn.res.some /\ yarn.s = Ramp(5, 240)
C39_WitnessEmpty == InlineCall /\ yarn.res.some /\ yarn.s = <<>>

\* A slice of SSO_LEN + 1 bytes was refused.
C39_WitnessNone ==
  InlineCall /\ ~yarn.res.some /\ ~yarn.res.panic /\ Len(yarn.s) = SSO_LEN + 1

\* What the buffer of from_fmt_args holds, and all that was written to it.
BufContent ==
  IF buf.kind = "Sso" THEN SubSeq(buf.bytes, 1, buf.len) ELSE buf.vec
Output == Flatten(written)

\* While write_fmt runs, the buffer holds the strings written, in order,
\* and is inline exactly when they are SSO_LEN bytes or fewer together.
BufferHolds ==
  buf.kind # "none" =>
    /\ BufContent = Output
    /\ buf.kind = "Sso" <=> Len(Output) <= SSO_LEN
    /\ buf.kind = "Sso" => \A i \in (buf.len + 1)..SSO_LEN : buf.bytes[i] = 0

\* from_fmt_args returned: the yarn holds the output yarn.s, and is SMALL
\* exactly when the output is SSO_LEN bytes or fewer.
ResultHolds ==
  /\ yarn.res.some
  /\ RawYarn_as_slice(yarn.res.y, yarn.res.mem) = yarn.s
  /\ RawYarn_kind(yarn.res.y) = SMALL <=> Len(yarn.s) <= SSO_LEN

\* from_fmt_args returned after write_fmt, or without it, the arguments
\* being a constant string.
FmtWritten == yarn.op = "from_fmt_args" /\ yarn.tag = HEAP
FmtConst == yarn.op = "from_fmt_args" /\ yarn.tag = STATIC

\* C40 (formatting buffer): in from_fmt_args, after any sequence of
\* write_str calls the buffer holds the concatenation, in order, of the
\* strings written; it is in the Sso form iff they are SSO_LEN bytes or
\* fewer together, the write that exceeds SSO_LEN moving all bytes to the
\* Vec form; and the yarn returned holds the formatted output and is SMALL
\* iff the output is SSO_LEN bytes or fewer.
C40_FormattingBuffer ==
  /\ BufferHolds
  /\ yarn.op = "from_fmt_args" => ResultHolds

\* The same, for the calls that go through write_fmt: it holds.
C40_Written ==
  /\ BufferHolds
  /\ FmtWritten => (ResultHolds /\ yarn.s = Output)

\* A constant of SSO_LEN bytes gives a yarn that is not SMALL; every other
\* constant gives what C40 says.
C40_Constant ==
  FmtConst =>
    IF Len(yarn.s) = SSO_LEN
      THEN RawYarn_kind(yarn.res.y) = STATIC
    ELSE ResultHolds

\* Three writes took the buffer to SSO_LEN bytes and then past it: the
\* yarn is on the heap and holds all of them.
C40_Witness ==
  /\ FmtWritten
  /\ Len(written) = 3
  /\ Len(written[1]) + Len(written[2]) = SSO_LEN
  /\ Len(written[3]) = 1
  /\ RawYarn_kind(yarn.res.y) = HEAP
  /\ RawYarn_as_slice(yarn.res.y, yarn.res.mem) = Output

\* The constant of SSO_LEN bytes.
C40_WitnessConstant ==
  FmtConst /\ Len(yarn.s) = SSO_LEN /\ RawYarn_kind(yarn.res.y) = STATIC

====
